---------------------------- MODULE Spec2Model ----------------------------
(***************************************************************************)
(* Model of the Babipoly game engine (src/simulation/babipoly_sim.py):     *)
(* class Player, class BabopolyGame and the board and card tables.         *)
(*                                                                         *)
(* The random module is the only input of a game.  Its outputs are the     *)
(* dice of roll() and the orders produced by random.shuffle in _make_deck. *)
(* A game of the model starts from one of the Scenarios (player count,     *)
(* starting money, the two initial shuffles and a recorded stream of       *)
(* rolls); at every roll the game either takes the next recorded roll or   *)
(* leaves the recording and takes any of the 36 rolls, at most FreeRolls   *)
(* times.  Currency is in FCFA, as in the source.                          *)
(***************************************************************************)
EXTENDS Integers, Sequences, FiniteSets, TLC

(***************************************************************************)
(* GAME CONSTANTS (babipoly_sim.py lines 31-41)                            *)
(***************************************************************************)
GO_REWARD == 10000
JAIL_BAIL == 5000
BOARD_SIZE == 40
JAIL_POS == 10

\* The ceiling of the model.  The source sets MAX_ROUNDS = 10_000; the model
\* runs the same loop with a ceiling small enough to be reached.
RoundCeiling == 8
MAX_ROUNDS == RoundCeiling

\* How many rolls a game may take outside its recorded stream.
FreeRolls == 1

\* Python's None (an unowned square, a charge with no creditor) and the
\* "no winner" value of stats["winner"].
None == -1

\* int(starting_money * RATIO) for the three AI ratios 0.10, 0.15, 0.40;
\* int() of the float product equals the integer floor for every starting
\* money from 1 to 300000.
BUY_RESERVE_PCT == 10
BUILD_RESERVE_PCT == 15
BAIL_RICH_PCT == 40

Reserve(sm, pct) == (sm * pct) \div 100

(***************************************************************************)
(* BOARD DATA (lines 48-183)                                               *)
(***************************************************************************)
Group(positions, house_cost) == [positions |-> positions, house_cost |-> house_cost]

\* Insertion order of the GROUPS dict, which _try_build iterates.
GROUP_ORDER ==
  << "yellow", "red", "orange", "brown", "green", "light_blue", "dark_blue", "purple" >>

GROUPS ==
  [ yellow     |-> Group(<<1, 3>>, 1000),
    red        |-> Group(<<6, 8, 9>>, 2000),
    orange     |-> Group(<<13, 15, 16>>, 3000),
    brown      |-> Group(<<18, 19>>, 4000),
    green      |-> Group(<<21, 23, 24>>, 5000),
    light_blue |-> Group(<<26, 27, 29>>, 6000),
    dark_blue  |-> Group(<<31, 33, 34>>, 7000),
    purple     |-> Group(<<37, 39>>, 10000) ]

STATION_POS == <<5, 14, 25, 35>>
UTILITY_POS == <<4, 11, 12, 28>>

Plain(t) == [type |-> t]
Tax(amount) == [type |-> "tax", amount |-> amount]
Property(group, price, mortgage, rent) ==
  [type |-> "property", group |-> group, price |-> price, mortgage |-> mortgage, rent |-> rent]
Station(price, mortgage, rent) ==
  [type |-> "station", price |-> price, mortgage |-> mortgage, rent |-> rent]
Utility(price, mortgage) == [type |-> "utility", price |-> price, mortgage |-> mortgage]

StationRent == <<3000, 6000, 12000, 24000>>

\* BOARD[pos]; the rent lists are indexed from 0 in the source, so tier b of
\* the source is rent[b + 1] here.
BOARD ==
  [pos \in 0..(BOARD_SIZE - 1) |->
    CASE pos = 0  -> Plain("go")
      [] pos = 2  -> Plain("community")
      [] pos = 7  -> Plain("chance")
      [] pos = 10 -> Plain("jail")
      [] pos = 17 -> Plain("chance")
      [] pos = 20 -> Plain("free_parking")
      [] pos = 22 -> Plain("community")
      [] pos = 30 -> Plain("go_to_jail")
      [] pos = 32 -> Plain("community")
      [] pos = 36 -> Plain("chance")
      [] pos = 38 -> Tax(5000)
      [] pos = 1  -> Property("yellow", 3000, 1000, <<1000, 2000, 4000, 6000, 8000, 10000>>)
      [] pos = 3  -> Property("yellow", 3000, 1000, <<1000, 2000, 4000, 6000, 8000, 10000>>)
      [] pos = 6  -> Property("red", 5000, 2000, <<1000, 3000, 6000, 9000, 12000, 15000>>)
      [] pos = 8  -> Property("red", 6000, 3000, <<1000, 3000, 7000, 10000, 14000, 18000>>)
      [] pos = 9  -> Property("red", 5000, 2000, <<1000, 3000, 6000, 9000, 12000, 15000>>)
      [] pos = 13 -> Property("orange", 7000, 3000, <<2000, 4000, 8000, 12000, 17000, 23000>>)
      [] pos = 15 -> Property("orange", 8000, 4000, <<2000, 5000, 9000, 14000, 19000, 26000>>)
      [] pos = 16 -> Property("orange", 5000, 2000, <<1000, 3000, 6000, 10000, 14000, 19000>>)
      [] pos = 18 -> Property("brown", 9000, 4000, <<2000, 5000, 10000, 15000, 21000, 28000>>)
      [] pos = 19 -> Property("brown", 10000, 5000, <<2000, 6000, 11000, 17000, 23000, 31000>>)
      [] pos = 21 -> Property("green", 11000, 5000, <<2000, 6000, 12000, 17000, 24000, 33000>>)
      [] pos = 23 -> Property("green", 11000, 5000, <<2000, 6000, 12000, 17000, 24000, 33000>>)
      [] pos = 24 -> Property("green", 12000, 6000, <<2000, 7000, 13000, 19000, 26000, 36000>>)
      [] pos = 26 -> Property("light_blue", 13000, 6000, <<2000, 7000, 14000, 21000, 28000, 39000>>)
      [] pos = 27 -> Property("light_blue", 13000, 6000, <<2000, 7000, 14000, 21000, 28000, 39000>>)
      [] pos = 29 -> Property("light_blue", 14000, 7000, <<2000, 8000, 15000, 23000, 31000, 43000>>)
      [] pos = 31 -> Property("dark_blue", 5000, 2000, <<1000, 3000, 6000, 10000, 14000, 19000>>)
      [] pos = 33 -> Property("dark_blue", 15000, 7000, <<2000, 8000, 16000, 23000, 31000, 43000>>)
      [] pos = 34 -> Property("dark_blue", 16000, 8000, <<2000, 9000, 17000, 25000, 34000, 46000>>)
      [] pos = 37 -> Property("purple", 17500, 9000, <<2000, 10000, 18000, 27000, 37000, 50000>>)
      [] pos = 39 -> Property("purple", 20000, 10000, <<2000, 11000, 21000, 31000, 42000, 58000>>)
      [] pos = 5  -> Station(10000, 5000, StationRent)
      [] pos = 14 -> Station(10000, 5000, StationRent)
      [] pos = 25 -> Station(10000, 5000, StationRent)
      [] pos = 35 -> Station(10000, 5000, StationRent)
      [] pos = 4  -> Utility(10000, 5000)
      [] pos = 11 -> Utility(10000, 5000)
      [] pos = 12 -> Utility(7500, 4000)
      [] pos = 28 -> Utility(7500, 4000) ]

Purchasable == {"property", "station", "utility"}

\* The keys of self.ownership.
OwnablePos == {pos \in DOMAIN BOARD : BOARD[pos].type \in Purchasable}

(***************************************************************************)
(* CARD DECKS (lines 201-237).  A card is (effect, value); value2 is the   *)
(* hotel fee of a repairs card, whose value is a pair in the source.       *)
(***************************************************************************)
Card(effect, value) == [effect |-> effect, value |-> value, value2 |-> 0]
Repairs(house_fee, hotel_fee) == [effect |-> "repairs", value |-> house_fee, value2 |-> hotel_fee]

\* Mutant of CHANCE_CARDS: the move_back card goes back five squares.
ChanceCardsBackFive ==
  << Card("move_to", 0), Card("move_to", 39), Card("move_to", 3), Card("move_to", 35),
     Card("move_to", 25), Card("nearest_station", 0), Card("move_to", 5),
     Card("receive", 2500), Card("get_out_of_jail", 0), Card("move_back", 5),
     Card("go_to_jail", 0), Repairs(1250, 5000), Card("pay", 750),
     Card("pay_each", 2500), Card("receive", 7500), Card("move_to", 21) >>

CHANCE_CARDS ==
  << Card("move_to", 0), Card("move_to", 39), Card("move_to", 3), Card("move_to", 35),
     Card("move_to", 25), Card("nearest_station", 0), Card("move_to", 5),
     Card("receive", 2500), Card("get_out_of_jail", 0), Card("move_back", 3),
     Card("go_to_jail", 0), Repairs(1250, 5000), Card("pay", 750),
     Card("pay_each", 2500), Card("receive", 7500), Card("move_to", 21) >>

COMMUNITY_CARDS ==
  << Card("move_to", 0), Card("receive", 10000), Card("pay", 2500), Card("receive", 2500),
     Card("get_out_of_jail", 0), Card("go_to_jail", 0), Card("receive_from_each", 500),
     Card("receive", 1000), Card("receive", 5000), Card("receive", 5000),
     Card("pay", 7500), Card("pay", 5000), Card("receive", 500), Card("receive", 12500),
     Repairs(2000, 5750), Card("receive", 1250) >>

IsJailCard(c) == c.effect = "get_out_of_jail"
NotJailCard(c) == c.effect # "get_out_of_jail"

\* random.shuffle(normal): perm is the order it produced, perm[i] being the
\* index in normal of the card that ends at place i.
Shuffled(normal, perm) == [i \in 1..Len(normal) |-> normal[perm[i]]]

\* Mutant of MakeDeck: the get-out-of-jail cards go on top.
MakeDeckJailOnTop(cards, perm) ==
  SelectSeq(cards, IsJailCard) \o Shuffled(SelectSeq(cards, NotJailCard), perm)

\* _make_deck: the shuffled normal cards, then the get-out-of-jail cards.
MakeDeck(cards, perm) ==
  LET normal == SelectSeq(cards, NotJailCard)
      jail   == SelectSeq(cards, IsJailCard)
  IN  Shuffled(normal, perm) \o jail


(***************************************************************************)
(* STATE.  players[i] holds the slots of class Player (the id is the       *)
(* index); ownership, the decks, the counters and stats are the fields of  *)
(* BabopolyGame.  pc and seat are the position of run() in its loops.      *)
(* script and free_rolls are the state of the random source.  log lists    *)
(* the operations completed by the last step, each with the state before   *)
(* and after it.                                                           *)
(***************************************************************************)
VARIABLES num_players, starting_money, players, ownership, chance_deck,
          community_deck, round_count, turn_count, stats, pc, seat,
          script, free_rolls, log

vars == << num_players, starting_money, players, ownership, chance_deck,
           community_deck, round_count, turn_count, stats, pc, seat,
           script, free_rolls, log >>

Seats == 0..(num_players - 1)

\* Player.__init__ (lines 250-259).
NewPlayer(sm) ==
  [money |-> sm, position |-> 0, in_jail |-> FALSE, jail_turns |-> 0,
   get_out_cards |-> 0, bankrupt |-> FALSE, properties |-> <<>>, consec_doubles |-> 0]

\* self.stats of __init__ (lines 303-315).
NewStats(n) ==
  [rounds |-> 0, turns |-> 0, winner |-> None, timed_out |-> FALSE,
   bankrupt_order |-> <<>>,
   peak_cash      |-> [i \in 0..(n - 1) |-> 0],
   props_bought   |-> [i \in 0..(n - 1) |-> 0],
   rent_paid      |-> [i \in 0..(n - 1) |-> 0],
   rent_received  |-> [i \in 0..(n - 1) |-> 0],
   go_rewards     |-> [i \in 0..(n - 1) |-> 0],
   total_tax_paid |-> [i \in 0..(n - 1) |-> 0]]

\* self.ownership of __init__ (lines 290-294).
NewOwnership == [pos \in OwnablePos |-> [owner |-> None, buildings |-> 0, mortgaged |-> FALSE]]

\* The game as the engine's operators pass it along: the mutable fields of
\* BabopolyGame and the log of the operations completed so far in the step.
Game ==
  [players |-> players, ownership |-> ownership, chance_deck |-> chance_deck,
   community_deck |-> community_deck, stats |-> stats, log |-> <<>>]

\* What an entry of the log keeps of a game.
Snap(g) == [players |-> g.players, ownership |-> g.ownership, stats |-> g.stats]

Logged(g, op, p, q, amount, pre, mid) ==
  [g EXCEPT !.log = Append(@, [op |-> op, p |-> p, q |-> q, amount |-> amount,
                               pre |-> pre, mid |-> mid, post |-> Snap(g)])]

Max(a, b) == IF a >= b THEN a ELSE b
Min(a, b) == IF a <= b THEN a ELSE b

(***************************************************************************)
(* MOVEMENT (lines 344-365)                                                *)
(***************************************************************************)
\* _credit (lines 369-375).
Credit(g, p, amount, source) ==
  LET m == g.players[p].money + amount
  IN  [g EXCEPT !.players[p].money = m,
                !.stats.go_rewards[p] = IF source = "go" THEN @ + amount ELSE @,
                !.stats.peak_cash[p] = IF m > @ THEN m ELSE @]

\* Mutant of MoveSteps: the bonus is credited on landing on the start square
\* too.
MoveStepsCreditsAtStart(g, p, steps) ==
  LET old == g.players[p].position
      new == (old + steps) % BOARD_SIZE
      g1  == IF new < old \/ (new = 0 /\ steps > 0)
             THEN Credit(g, p, GO_REWARD, "go") ELSE g
  IN  [g1 EXCEPT !.players[p].position = new]

\* _move_steps (lines 344-353).
MoveSteps(g, p, steps) ==
  LET old == g.players[p].position
      new == (old + steps) % BOARD_SIZE
      g1  == IF (new < old \/ (new = 0 /\ steps > 0)) /\ new # 0
             THEN Credit(g, p, GO_REWARD, "go") ELSE g
  IN  [g1 EXCEPT !.players[p].position = new]

\* _move_to (lines 355-359).
MoveTo(g, p, target) ==
  LET g1 == IF target < g.players[p].position THEN Credit(g, p, GO_REWARD, "go") ELSE g
  IN  [g1 EXCEPT !.players[p].position = target]

\* Mutant of SendToJail: the doubles counter is left as it is.
SendToJailKeepsDoubles(g, p) ==
  [g EXCEPT !.players[p].position = JAIL_POS, !.players[p].in_jail = TRUE,
            !.players[p].jail_turns = 0]

\* _send_to_jail (lines 361-365).
SendToJail(g, p) ==
  [g EXCEPT !.players[p].position = JAIL_POS, !.players[p].in_jail = TRUE,
            !.players[p].jail_turns = 0, !.players[p].consec_doubles = 0]

(***************************************************************************)
(* MONEY (lines 377-441)                                                   *)
(***************************************************************************)
\* Mutant of SellBuildings: the loop goes through every square, enough cash
\* or not.
RECURSIVE SellAllBuildings(_, _, _, _, _)
SellAllBuildings(g, p, needed, props, i) ==
  IF i > Len(props) THEN g
  ELSE IF BOARD[props[i]].type = "property" /\ g.ownership[props[i]].buildings > 0
       THEN SellAllBuildings(
              [g EXCEPT !.players[p].money =
                          @ + (g.ownership[props[i]].buildings
                               * GROUPS[BOARD[props[i]].group].house_cost) \div 2,
                        !.ownership[props[i]].buildings = 0],
              p, needed, props, i + 1)
       ELSE SellAllBuildings(g, p, needed, props, i + 1)

\* First loop of _raise_funds (lines 401-410) over props, the copy of the
\* player's list taken when the loop starts, from index i on.
RECURSIVE SellBuildings(_, _, _, _, _)
SellBuildings(g, p, needed, props, i) ==
  IF i > Len(props) \/ g.players[p].money >= needed THEN g
  ELSE LET pos == props[i]
           sq  == BOARD[pos]
           ow  == g.ownership[pos]
       IN  IF sq.type = "property" /\ ow.buildings > 0
           THEN LET refund == (ow.buildings * GROUPS[sq.group].house_cost) \div 2
                IN  SellBuildings([g EXCEPT !.players[p].money = @ + refund,
                                            !.ownership[pos].buildings = 0],
                                  p, needed, props, i + 1)
           ELSE SellBuildings(g, p, needed, props, i + 1)

\* Mutant of MortgageSquares: the loop is left after the first mortgage.
RECURSIVE MortgageOnce(_, _, _, _, _)
MortgageOnce(g, p, needed, props, i) ==
  IF i > Len(props) \/ g.players[p].money >= needed THEN g
  ELSE IF ~g.ownership[props[i]].mortgaged /\ g.ownership[props[i]].buildings = 0
       THEN [g EXCEPT !.players[p].money = @ + BOARD[props[i]].mortgage,
                      !.ownership[props[i]].mortgaged = TRUE]
       ELSE MortgageOnce(g, p, needed, props, i + 1)

\* Second loop of _raise_funds (lines 413-420).
RECURSIVE MortgageSquares(_, _, _, _, _)
MortgageSquares(g, p, needed, props, i) ==
  IF i > Len(props) \/ g.players[p].money >= needed THEN g
  ELSE LET pos == props[i]
           ow  == g.ownership[pos]
       IN  IF ~ow.mortgaged /\ ow.buildings = 0
           THEN MortgageSquares([g EXCEPT !.players[p].money = @ + BOARD[pos].mortgage,
                                          !.ownership[pos].mortgaged = TRUE],
                                p, needed, props, i + 1)
           ELSE MortgageSquares(g, p, needed, props, i + 1)

\* Step 2 of _raise_funds, on the game g1 left by step 1.
MortgagePass(g1, p, needed) == MortgageSquares(g1, p, needed, g1.players[p].properties, 1)

\* _raise_funds (lines 398-420).
RaiseFunds(g, p, needed) ==
  MortgagePass(SellBuildings(g, p, needed, g.players[p].properties, 1), p, needed)

\* Mutant of TransferSquares: the ledger names the creditor, whose list is
\* left as it was.
RECURSIVE TransferLedgerOnly(_, _, _, _)
TransferLedgerOnly(g, creditor, props, i) ==
  IF i > Len(props) THEN g
  ELSE TransferLedgerOnly([g EXCEPT !.ownership[props[i]].mortgaged = TRUE,
                                    !.ownership[props[i]].owner = creditor],
                          creditor, props, i + 1)

\* Mutant of TransferSquares: the squares reach the creditor free of mortgage.
RECURSIVE TransferUnmortgaged(_, _, _, _)
TransferUnmortgaged(g, creditor, props, i) ==
  IF i > Len(props) THEN g
  ELSE TransferUnmortgaged([g EXCEPT !.ownership[props[i]].mortgaged = FALSE,
                                     !.ownership[props[i]].owner = creditor,
                                     !.players[creditor].properties = Append(@, props[i])],
                           creditor, props, i + 1)

\* The creditor branch of _bankrupt (lines 428-432): each square of props
\* becomes the creditor's, mortgaged.
RECURSIVE TransferSquares(_, _, _, _)
TransferSquares(g, creditor, props, i) ==
  IF i > Len(props) THEN g
  ELSE TransferSquares([g EXCEPT !.ownership[props[i]].mortgaged = TRUE,
                                 !.ownership[props[i]].owner = creditor,
                                 !.players[creditor].properties = Append(@, props[i])],
                       creditor, props, i + 1)

\* Mutant of ReturnSquares: the ledger is left as it was.
ReturnNothing(g, props) == g

\* Mutant of ReturnSquares: the squares lose their owner and keep their
\* mortgage.
ReturnSquaresMortgaged(g, props) ==
  [g EXCEPT !.ownership = [pos \in OwnablePos |->
                             IF pos \in {props[i] : i \in 1..Len(props)}
                             THEN [@[pos] EXCEPT !.owner = None, !.buildings = 0]
                             ELSE @[pos]]]

\* The bank branch of _bankrupt (lines 434-438).
ReturnSquares(g, props) ==
  LET held == {props[i] : i \in 1..Len(props)}
  IN  [g EXCEPT !.ownership = [pos \in OwnablePos |->
                                 IF pos \in held
                                 THEN [owner |-> None, buildings |-> 0, mortgaged |-> FALSE]
                                 ELSE @[pos]]]

\* `if creditor and not creditor.bankrupt` (lines 387, 426): a Player object
\* is true, None is false.
Solvent(g, creditor) == creditor # None /\ ~g.players[creditor].bankrupt

\* Mutant of BankruptEstate: the debtor's cash is lost, not handed over.
EstateForfeited(g, p) == 0

\* What _bankrupt gives the creditor (line 427).
BankruptEstate(g, p) == g.players[p].money

\* Mutant of MarkBankrupt: the player is marked and not listed.
MarkBankruptUnlisted(g, p) == [g EXCEPT !.players[p].bankrupt = TRUE]

\* Lines 423-424 of _bankrupt.
MarkBankrupt(g, p) ==
  [g EXCEPT !.players[p].bankrupt = TRUE, !.stats.bankrupt_order = Append(@, p)]

\* Lines 426-438 of _bankrupt, on the game g0 with the player marked.
SettleSquares(g0, p, creditor) ==
  IF Solvent(g0, creditor)
  THEN TransferSquares([g0 EXCEPT !.players[creditor].money = @ + BankruptEstate(g0, p)],
                       creditor, g0.players[p].properties, 1)
  ELSE ReturnSquares(g0, g0.players[p].properties)

\* Mutant of ClearDebtor: the list is emptied, the cash is left.
ClearDebtorList(g1, p) == [g1 EXCEPT !.players[p].properties = <<>>]

\* Lines 440-441 of _bankrupt.
ClearDebtor(g1, p) == [g1 EXCEPT !.players[p].properties = <<>>, !.players[p].money = 0]

\* _bankrupt (lines 422-441).
Bankrupt(g, p, creditor) ==
  Logged(ClearDebtor(SettleSquares(MarkBankrupt(g, p), p, creditor), p),
         "bankrupt", p, creditor, 0, Snap(g), Snap(g))

\* Mutant of Pay: the payer is debited and nobody is credited.
PayUncredited(g, p, amount, creditor) == [g EXCEPT !.players[p].money = @ - amount]

\* The successful branch of _charge (lines 386-391): the debit and, for a
\* solvent creditor, the credit.
Pay(g, p, amount, creditor) ==
  IF Solvent(g, creditor)
  THEN [g EXCEPT !.players[p].money = @ - amount,
                 !.stats.rent_received[creditor] = @ + amount,
                 !.players[creditor].money = @ + amount,
                 !.stats.peak_cash[creditor] = Max(@, g.players[creditor].money + amount)]
  ELSE [g EXCEPT !.players[p].money = @ - amount]

\* Mutant of ChargeRaised: the amount is taken whether or not the player has it.
ChargeUnchecked(g, g1, p, amount, creditor) ==
  Logged(Pay(g1, p, amount, creditor), "charge", p, creditor, amount, Snap(g), Snap(g1))

\* Lines 385-396 of _charge, on the game g1 left by the liquidation.  The log
\* entry keeps the game before the charge (pre) and after liquidation (mid).
ChargeRaised(g, g1, p, amount, creditor) ==
  Logged(IF g1.players[p].money >= amount
         THEN Pay(g1, p, amount, creditor)
         ELSE Bankrupt(g1, p, creditor),
         "charge", p, creditor, amount, Snap(g), Snap(g1))

\* _charge (lines 377-396); its result (whether the payment succeeded) is
\* used by no caller.
Charge(g, p, amount, creditor) ==
  ChargeRaised(g, IF g.players[p].money < amount THEN RaiseFunds(g, p, amount) ELSE g,
               p, amount, creditor)

(***************************************************************************)
(* OWNERSHIP HELPERS AND RENT (lines 445-494)                              *)
(***************************************************************************)
SeqToSet(sq) == {sq[i] : i \in 1..Len(sq)}

\* xs[i] of a Python list: from 0, a negative index counting from the end.
PyIndex(xs, i) == IF i >= 0 THEN xs[i + 1] ELSE xs[Len(xs) + i + 1]

\* Mutant of OwnsGroup: a mortgaged square counts too.
OwnsGroupMortgagedToo(own, p, group) ==
  \A q \in SeqToSet(GROUPS[group].positions) : own[q].owner = p

\* _owns_group (lines 445-450).
OwnsGroup(own, p, group) ==
  \A q \in SeqToSet(GROUPS[group].positions) : own[q].owner = p /\ ~own[q].mortgaged

\* _stations_owned (lines 452-457).
StationsOwned(own, p) ==
  Cardinality({q \in SeqToSet(STATION_POS) : own[q].owner = p /\ ~own[q].mortgaged})

\* _utilities_owned (lines 459-464).
UtilitiesOwned(own, p) ==
  Cardinality({q \in SeqToSet(UTILITY_POS) : own[q].owner = p /\ ~own[q].mortgaged})

\* Mutant of PropertyRent: a monopoly doubles the rent whatever is built.
PropertyRentAlwaysDoubled(own, pos) ==
  IF OwnsGroup(own, own[pos].owner, BOARD[pos].group)
  THEN PyIndex(BOARD[pos].rent, own[pos].buildings) * 2
  ELSE PyIndex(BOARD[pos].rent, own[pos].buildings)

\* The property branch of _rent (lines 477-482).
PropertyRent(own, pos) ==
  LET sq   == BOARD[pos]
      b    == own[pos].buildings
      rent == PyIndex(sq.rent, b)
  IN  IF b = 0 /\ OwnsGroup(own, own[pos].owner, sq.group) THEN rent * 2 ELSE rent

\* Mutant of Rent: the card rule is ignored for stations.
RentNeverDoubled(own, pos, dice, double_station) ==
  IF own[pos].owner = None \/ own[pos].mortgaged THEN 0
  ELSE CASE BOARD[pos].type = "property" -> PropertyRent(own, pos)
         [] BOARD[pos].type = "station" ->
              PyIndex(BOARD[pos].rent, StationsOwned(own, own[pos].owner) - 1)
         [] BOARD[pos].type = "utility" ->
              dice * (IF UtilitiesOwned(own, own[pos].owner) >= 2 THEN 10 ELSE 4)
         [] OTHER -> 0

\* _rent (lines 468-494).
Rent(own, pos, dice, double_station) ==
  LET sq == BOARD[pos]
      ow == own[pos]
  IN  IF ow.owner = None \/ ow.mortgaged THEN 0
      ELSE CASE sq.type = "property" -> PropertyRent(own, pos)
             [] sq.type = "station" ->
                  PyIndex(sq.rent, StationsOwned(own, ow.owner) - 1)
                    * (IF double_station THEN 2 ELSE 1)
             [] sq.type = "utility" ->
                  dice * (IF UtilitiesOwned(own, ow.owner) >= 2 THEN 10 ELSE 4)
             [] OTHER -> 0

(***************************************************************************)
(* AI (lines 498-529)                                                      *)
(***************************************************************************)
MinBuildings(own, positions) ==
  CHOOSE m \in 0..5 :
    /\ \E i \in 1..Len(positions) : own[positions[i]].buildings = m
    /\ \A i \in 1..Len(positions) : own[positions[i]].buildings >= m

\* Mutant of BuildRow: the player builds down to the last coin.
RECURSIVE BuildRowNoReserve(_, _, _, _, _, _, _)
BuildRowNoReserve(g, p, group, min_b, reserve, i, improved) ==
  IF i > Len(GROUPS[group].positions) THEN [g |-> g, improved |-> improved]
  ELSE IF g.ownership[GROUPS[group].positions[i]].buildings = min_b /\ min_b < 5
       THEN IF g.players[p].money - GROUPS[group].house_cost >= 0
            THEN BuildRowNoReserve(
                   [g EXCEPT !.players[p].money = @ - GROUPS[group].house_cost,
                             !.ownership[GROUPS[group].positions[i]].buildings = @ + 1],
                   p, group, min_b, reserve, i + 1, TRUE)
            ELSE [g |-> g, improved |-> FALSE]
       ELSE BuildRowNoReserve(g, p, group, min_b, reserve, i + 1, improved)

\* The for loop of _try_build (lines 514-523) from index i on: the game and
\* the value of improved when the loop ends.
RECURSIVE BuildRow(_, _, _, _, _, _, _)
BuildRow(g, p, group, min_b, reserve, i, improved) ==
  LET positions  == GROUPS[group].positions
      house_cost == GROUPS[group].house_cost
  IN  IF i > Len(positions) THEN [g |-> g, improved |-> improved]
      ELSE LET pos == positions[i]
               ow  == g.ownership[pos]
           IN  IF ow.buildings = min_b /\ ow.buildings < 5
               THEN IF g.players[p].money - house_cost >= reserve
                    THEN BuildRow([g EXCEPT !.players[p].money = @ - house_cost,
                                            !.ownership[pos].buildings = @ + 1],
                                  p, group, min_b, reserve, i + 1, TRUE)
                    ELSE [g |-> g, improved |-> FALSE]
               ELSE BuildRow(g, p, group, min_b, reserve, i + 1, improved)

\* The while loop of _try_build (lines 508-523) for one group.
RECURSIVE BuildGroup(_, _, _, _)
BuildGroup(g, p, group, reserve) ==
  LET min_b == MinBuildings(g.ownership, GROUPS[group].positions)
  IN  IF min_b >= 5 THEN g
      ELSE LET r == BuildRow(g, p, group, min_b, reserve, 1, FALSE)
           IN  IF r.improved THEN BuildGroup(r.g, p, group, reserve) ELSE r.g

RECURSIVE BuildGroups(_, _, _, _)
BuildGroups(g, p, reserve, k) ==
  IF k > Len(GROUP_ORDER) THEN g
  ELSE LET group == GROUP_ORDER[k]
       IN  IF OwnsGroup(g.ownership, p, group)
           THEN BuildGroups(BuildGroup(g, p, group, reserve), p, reserve, k + 1)
           ELSE BuildGroups(g, p, reserve, k + 1)

\* The log entry of a _try_build that built something.
LoggedBuild(g, g1, p) ==
  IF g1.ownership # g.ownership THEN Logged(g1, "build", p, None, 0, Snap(g), Snap(g)) ELSE g1

\* _try_build (lines 498-523).
TryBuild(g, p) ==
  LoggedBuild(g, BuildGroups(g, p, Reserve(starting_money, BUILD_RESERVE_PCT), 1), p)

\* Mutant of ShouldBuy: the player buys whatever the cash covers.
ShouldBuyWithoutReserve(g, p, price) == g.players[p].money - price >= 0

\* _should_buy (lines 527-529).
ShouldBuy(g, p, price) ==
  g.players[p].money - price >= Reserve(starting_money, BUY_RESERVE_PCT)

(***************************************************************************)
(* CARD AND SQUARE RESOLUTION (lines 326-334, 533-648)                     *)
(***************************************************************************)
\* _draw_chance (lines 326-329): the card and the game after the draw; perm
\* is the order random.shuffle gives if the deck has to be rebuilt.
DrawChance(g, perm) ==
  LET deck == IF g.chance_deck = <<>> THEN MakeDeck(CHANCE_CARDS, perm) ELSE g.chance_deck
  IN  [card |-> Head(deck), g |-> [g EXCEPT !.chance_deck = Tail(deck)]]

\* _draw_community (lines 331-334).
DrawCommunity(g, perm) ==
  LET deck == IF g.community_deck = <<>> THEN MakeDeck(COMMUNITY_CARDS, perm)
              ELSE g.community_deck
  IN  [card |-> Head(deck), g |-> [g EXCEPT !.community_deck = Tail(deck)]]

\* min(STATION_POS, key=lambda s: (s - pos) % BOARD_SIZE) (line 550); the
\* four distances differ, so the minimum is unique.
NearestStation(pos) ==
  CHOOSE s \in SeqToSet(STATION_POS) :
    \A t \in SeqToSet(STATION_POS) : (s - pos) % BOARD_SIZE <= (t - pos) % BOARD_SIZE

\* Mutant of ActiveOthers: the bankrupt players are on the list too.
EveryOther(g, p) ==
  SelectSeq([i \in 1..num_players |-> i - 1], LAMBDA i : i # p)

\* active_others (line 535), in seat order.
ActiveOthers(g, p) ==
  SelectSeq([i \in 1..num_players |-> i - 1],
            LAMBDA i : ~g.players[i].bankrupt /\ i # p)

\* `x.money -= amt; y.money += amt` (lines 578-579, 584-585).
Transfer(g, from, to, amt) ==
  [g EXCEPT !.players[from].money = @ - amt, !.players[to].money = @ + amt]

\* One payment of a pay_each card (lines 577-579).
PayOne(g, p, other, value) ==
  Logged(Transfer(g, p, other, Min(value, g.players[p].money)),
         "pay_each", p, other, Min(value, g.players[p].money), Snap(g), Snap(g))

\* The loop of pay_each (lines 574-579).
RECURSIVE PayEach(_, _, _, _, _)
PayEach(g, p, others, value, i) ==
  IF i > Len(others) \/ g.players[p].bankrupt THEN g
  ELSE PayEach(PayOne(g, p, others[i], value), p, others, value, i + 1)

\* Mutant of CollectOne: the whole value is taken, whatever the payer holds.
CollectInFull(g, p, other, value) ==
  Logged(Transfer(g, other, p, value), "receive_from_each", other, p, value, Snap(g), Snap(g))

\* One collection of a receive_from_each card (lines 583-585).
CollectOne(g, p, other, value) ==
  Logged(Transfer(g, other, p, Min(value, g.players[other].money)),
         "receive_from_each", other, p, Min(value, g.players[other].money), Snap(g), Snap(g))

\* The loop of receive_from_each (lines 582-585).
RECURSIVE ReceiveFromEach(_, _, _, _, _)
ReceiveFromEach(g, p, others, value, i) ==
  IF i > Len(others) THEN g
  ELSE ReceiveFromEach(CollectOne(g, p, others[i], value), p, others, value, i + 1)

\* The sum of a repairs card (lines 589-595) over props from index i on.
RECURSIVE RepairsTotal(_, _, _, _, _)
RepairsTotal(own, props, house_cost, hotel_cost, i) ==
  IF i > Len(props) THEN 0
  ELSE LET b == own[props[i]].buildings
           fee == IF BOARD[props[i]].type = "property"
                  THEN (IF b = 5 THEN hotel_cost ELSE b * house_cost) ELSE 0
       IN  fee + RepairsTotal(own, props, house_cost, hotel_cost, i + 1)

\* The purchase of _apply_square (lines 635-638).
Buy(g, p, pos, price) ==
  Logged([g EXCEPT !.players[p].money = @ - price,
                   !.ownership[pos].owner = p,
                   !.players[p].properties = Append(@, pos),
                   !.stats.props_bought[p] = @ + 1],
         "buy", p, None, price, Snap(g), Snap(g))

\* Mutant of PayRent: the charge is made and rent_paid is left as it was.
PayRentUnrecorded(g, p, rent, owner) == Charge(g, p, rent, owner)

\* A rent: rent_paid is recorded, then the charge is made (lines 557-558,
\* 645-646).
PayRent(g, p, rent, owner) ==
  Charge([g EXCEPT !.stats.rent_paid[p] = @ + rent], p, rent, owner)

\* A payment to the bank that counts as tax (lines 570-571, 597-598, 619-620).
PayTax(g, p, amount) ==
  Charge([g EXCEPT !.stats.total_tax_paid[p] = @ + amount], p, amount, None)

\* `if rent: ... self._charge(player, rent, owner)` (lines 556-558, 644-646).
RentDue(g, p, rent, owner) == IF rent > 0 THEN PayRent(g, p, rent, owner) ELSE g

\* Lines 552-558 of _apply_card, on the game g1 with the pawn on the station.
AtNearestStation(g1, p, nearest, ow, dice) ==
  IF ow.owner # None /\ ow.owner # p /\ ~ow.mortgaged
  THEN RentDue(g1, p, Rent(g1.ownership, nearest, dice, TRUE), ow.owner)
  ELSE g1

\* Line 551 of _apply_card and what follows it.
NearestStationAt(g, p, nearest, dice) ==
  AtNearestStation(MoveTo(g, p, nearest), p, nearest, g.ownership[nearest], dice)

\* The nearest_station branch of _apply_card (lines 549-558).
NearestStationCard(g, p, dice) ==
  NearestStationAt(g, p, NearestStation(g.players[p].position), dice)

RECURSIVE ApplySquare(_, _, _, _)

\* What a move_to or move_back card does once the pawn is placed (lines
\* 539-540, 545-546).
AfterMove(g, p, dice, sh) ==
  IF ~g.players[p].bankrupt THEN ApplySquare(g, p, dice, sh) ELSE g

\* The sum of a repairs card is charged if it is not zero (lines 596-598).
RepairsDue(g, p, total) == IF total > 0 THEN PayTax(g, p, total) ELSE g

\* The branches of _apply_card (lines 537-598).  sh holds, for each deck, the
\* order to use if the deck is rebuilt during the step.
CardEffect(g, p, effect, card, dice, sh) ==
  CASE effect \in {"move_to", "move_back"} ->
         AfterMove(IF effect = "move_to" THEN MoveTo(g, p, card.value)
                   ELSE [g EXCEPT !.players[p].position = (@ - card.value) % BOARD_SIZE],
                   p, dice, sh)
    [] effect = "nearest_station" -> NearestStationCard(g, p, dice)
    [] effect = "go_to_jail" -> SendToJail(g, p)
    [] effect = "get_out_of_jail" -> [g EXCEPT !.players[p].get_out_cards = @ + 1]
    [] effect = "receive" -> Credit(g, p, card.value, "bank")
    [] effect = "pay" -> PayTax(g, p, card.value)
    [] effect = "pay_each" -> PayEach(g, p, ActiveOthers(g, p), card.value, 1)
    [] effect = "receive_from_each" -> ReceiveFromEach(g, p, ActiveOthers(g, p), card.value, 1)
    [] effect = "repairs" ->
         RepairsDue(g, p, RepairsTotal(g.ownership, g.players[p].properties,
                                       card.value, card.value2, 1))
    [] OTHER -> g

\* The log entry of a card: the game before it (pre) and after it (post).
LoggedCard(g, done, p, card) ==
  [done EXCEPT !.log = Append(@, [op |-> "card", p |-> p, q |-> None, amount |-> 0,
                                  card |-> card, pre |-> Snap(g), mid |-> Snap(g),
                                  post |-> Snap(done)])]

\* _apply_card (lines 533-598).
ApplyCard(g, p, card, dice, sh) ==
  LoggedCard(g, CardEffect(g, p, card.effect, card, dice, sh), p, card)

\* `card = self._draw_...(); self._apply_card(player, card, dice)` (lines
\* 623-624, 627-628) for the draw d.
ApplyDrawn(d, p, dice, sh) == ApplyCard(d.g, p, d.card, dice, sh)

\* The branch of _apply_square for a purchasable square (lines 630-646).
LandOnOwnable(g, p, pos, ow, price, dice) ==
  IF ow.owner = None
  THEN (IF ShouldBuy(g, p, price) THEN Buy(g, p, pos, price) ELSE g)
  ELSE IF ow.owner # p /\ ~ow.mortgaged
       THEN IF ~g.players[ow.owner].bankrupt
            THEN RentDue(g, p, Rent(g.ownership, pos, dice, FALSE), ow.owner)
            ELSE g
       ELSE g

\* The branches of _apply_square (lines 611-648) for the square type t.
SquareEffect(g, p, pos, t, dice, sh) ==
  CASE t = "go" -> Credit(g, p, GO_REWARD, "go")
    [] t = "go_to_jail" -> SendToJail(g, p)
    [] t = "tax" -> PayTax(g, p, BOARD[pos].amount)
    [] t \in {"chance", "community"} ->
         ApplyDrawn(IF t = "chance" THEN DrawChance(g, sh.chance)
                    ELSE DrawCommunity(g, sh.community), p, dice, sh)
    [] t \in Purchasable -> LandOnOwnable(g, p, pos, g.ownership[pos], BOARD[pos].price, dice)
    [] OTHER -> g

\* _apply_square (lines 602-648).
ApplySquare(g, p, dice, sh) ==
  IF g.players[p].bankrupt THEN g
  ELSE SquareEffect(g, p, g.players[p].position, BOARD[g.players[p].position].type, dice, sh)

(***************************************************************************)
(* JAIL AND THE TURN (lines 652-726)                                       *)
(***************************************************************************)
LeaveJail(g, p) == [g EXCEPT !.players[p].in_jail = FALSE, !.players[p].jail_turns = 0]

\* The bail branch of _jail_turn (lines 670-673).
PayBail(g, p) ==
  Logged(LeaveJail([g EXCEPT !.players[p].money = @ - JAIL_BAIL], p),
         "bail", p, None, JAIL_BAIL, Snap(g), Snap(g))

\* Mutant of JailExit: bail is paid whatever the cash.
JailExitBailUnchecked(g1, pl, p, d1, d2) ==
  IF pl.get_out_cards > 0
  THEN [g |-> LeaveJail([g1 EXCEPT !.players[p].get_out_cards = @ - 1], p), out |-> TRUE]
  ELSE IF pl.jail_turns >= 3 \/ pl.money > Reserve(starting_money, BAIL_RICH_PCT)
       THEN [g |-> PayBail(g1, p), out |-> TRUE]
       ELSE IF d1 = d2
            THEN [g |-> LeaveJail(g1, p), out |-> TRUE]
            ELSE [g |-> g1, out |-> FALSE]

\* Lines 659-682 of _jail_turn, on the game g1 with jail_turns counted and
\* pl the player in it.
JailExit(g1, pl, p, d1, d2) ==
  IF pl.get_out_cards > 0
  THEN [g |-> LeaveJail([g1 EXCEPT !.players[p].get_out_cards = @ - 1], p), out |-> TRUE]
  ELSE IF (pl.jail_turns >= 3 \/ pl.money > Reserve(starting_money, BAIL_RICH_PCT))
          /\ pl.money >= JAIL_BAIL
       THEN [g |-> PayBail(g1, p), out |-> TRUE]
       ELSE IF d1 = d2
            THEN [g |-> LeaveJail(g1, p), out |-> TRUE]
            ELSE [g |-> g1, out |-> FALSE]

\* _jail_turn (lines 652-682) with <<d1, d2>> the one roll it makes: the game
\* and whether the player gets out (the source returns the dice or None).
JailTurn(g, p, d1, d2) ==
  JailExit([g EXCEPT !.players[p].jail_turns = @ + 1],
           [g.players[p] EXCEPT !.jail_turns = @ + 1], p, d1, d2)

\* Mutant of AfterBuild: the loop goes round again unless the player is in
\* jail, double or not.
AfterBuildUnlessJailed(g5, p, double) ==
  [g |-> g5, again |-> ~g5.players[p].in_jail]

\* Lines 722-723: the loop goes round again unless `not double or in_jail`.
AfterBuild(g5, p, double) ==
  [g |-> g5, again |-> ~(~double \/ g5.players[p].in_jail)]

\* Mutant of AfterSquare: a bankrupt player goes on like any other.
AfterSquareBankruptToo(g4, p, double) ==
  AfterBuild(TryBuild(g4, p), p, double)

\* Lines 716-720, on the game g4 after the square.
AfterSquare(g4, p, double) ==
  IF g4.players[p].bankrupt THEN [g |-> g4, again |-> FALSE]
  ELSE AfterBuild(TryBuild(g4, p), p, double)

\* Lines 705-714, on the game g2 with the double counted.
AfterDouble(g2, p, dice, double, sh) ==
  IF double /\ ~g2.players[p].in_jail /\ g2.players[p].consec_doubles = 3
  THEN [g |-> SendToJail(g2, p), again |-> FALSE]
  ELSE AfterSquare(ApplySquare(IF ~g2.players[p].in_jail THEN MoveSteps(g2, p, dice) ELSE g2,
                               p, dice, sh),
                   p, double)

\* Lines 702-706, on the game g1 with the player rolling <<d1, d2>>.
Rolled(g1, p, d1, d2, sh) ==
  AfterDouble(IF d1 = d2 /\ ~g1.players[p].in_jail
              THEN [g1 EXCEPT !.players[p].consec_doubles = @ + 1] ELSE g1,
              p, d1 + d2, d1 = d2, sh)

\* Lines 696-698, on the result jt of the jail turn.
AfterJail(jt, p, d1, d2, sh) ==
  IF ~jt.out THEN [g |-> jt.g, again |-> FALSE] ELSE Rolled(jt.g, p, d1, d2, sh)

\* One pass of the while loop of _play_turn (lines 692-724) with the roll
\* <<d1, d2>>: the game after it and whether the loop goes round again.
TurnPass(g, p, d1, d2, sh) ==
  AfterJail(IF g.players[p].in_jail THEN JailTurn(g, p, d1, d2) ELSE [g |-> g, out |-> TRUE],
            p, d1, d2, sh)

(***************************************************************************)
(* THE RANDOM SOURCE                                                       *)
(***************************************************************************)
\* roll() (lines 338-340).
DieFaces == 1..6

\* A recorded game: the arguments of BabopolyGame(...), the orders of the two
\* shuffles of __init__ and the rolls of run().
Scenario(n, sm, chance, community, rolls) ==
  [n |-> n, sm |-> sm, chance |-> chance, community |-> community, rolls |-> rolls]

Scenarios ==
  {
    \* a pay card bankrupts a player towards the bank
    Scenario(2, 3400,
             <<5, 6, 3, 13, 8, 15, 2, 1, 9, 10, 7, 14, 11, 4, 12>>,
             <<10, 8, 6, 9, 5, 13, 2, 3, 11, 1, 15, 14, 7, 12, 4>>,
             <<<<2, 5>>, <<1, 1>>>>),
    \* pay_each, then a rent that bankrupts a player with no square
    Scenario(2, 3400,
             <<13, 11, 12, 15, 9, 1, 14, 5, 6, 7, 4, 8, 3, 2, 10>>,
             <<13, 8, 14, 12, 2, 10, 5, 7, 3, 15, 9, 11, 4, 6, 1>>,
             <<<<3, 4>>, <<4, 5>>, <<1, 1>>, <<5, 3>>>>),
    \* move_to 0, go_to_jail, a jail turn, a bank bankruptcy that returns a square
    Scenario(2, 6000,
             <<10, 3, 15, 11, 1, 14, 8, 2, 5, 13, 12, 9, 7, 4, 6>>,
             <<1, 11, 10, 12, 8, 5, 3, 13, 14, 6, 9, 4, 2, 7, 15>>,
             <<<<1, 1>>, <<5, 5>>, <<2, 5>>, <<5, 3>>, <<3, 2>>, <<3, 5>>, <<4, 2>>,
               <<1, 5>>>>),
    \* nearest_station at double rent; the last player but one falls in round 8
    Scenario(2, 12000,
             <<7, 9, 5, 6, 10, 11, 13, 4, 12, 2, 8, 3, 15, 14, 1>>,
             <<13, 7, 4, 1, 5, 3, 12, 8, 10, 6, 15, 9, 2, 14, 11>>,
             <<<<4, 3>>, <<3, 5>>, <<6, 6>>, <<5, 2>>, <<4, 2>>, <<5, 2>>, <<1, 2>>,
               <<4, 1>>, <<6, 6>>, <<6, 4>>, <<4, 5>>, <<5, 2>>, <<1, 6>>, <<5, 2>>,
               <<5, 4>>, <<5, 3>>, <<3, 5>>, <<2, 2>>>>),
    \* a monopoly is built on and collects rent; the game reaches the ceiling
    Scenario(2, 20000,
             <<9, 14, 13, 5, 2, 6, 4, 1, 8, 11, 7, 12, 3, 10, 15>>,
             <<14, 6, 12, 13, 11, 3, 4, 2, 8, 9, 1, 15, 5, 10, 7>>,
             <<<<4, 5>>, <<4, 3>>, <<6, 4>>, <<5, 3>>, <<2, 5>>, <<6, 2>>, <<1, 6>>,
               <<4, 4>>, <<2, 2>>, <<4, 1>>, <<4, 5>>, <<1, 5>>, <<2, 3>>, <<2, 3>>,
               <<1, 5>>, <<1, 2>>, <<2, 3>>, <<3, 4>>>>),
    \* three players: a bankrupt seat is skipped, then nobody is left
    Scenario(3, 3400,
             <<9, 7, 2, 3, 4, 1, 5, 13, 10, 8, 14, 12, 11, 15, 6>>,
             <<11, 1, 15, 14, 13, 8, 10, 3, 4, 12, 7, 6, 9, 2, 5>>,
             <<<<1, 2>>, <<2, 3>>, <<1, 1>>, <<6, 3>>, <<5, 2>>, <<5, 1>>, <<5, 2>>,
               <<1, 1>>, <<3, 3>>, <<2, 3>>, <<6, 4>>, <<4, 3>>, <<5, 4>>>>),
    \* three turns in jail
    Scenario(2, 3400,
             <<10, 1, 6, 11, 3, 12, 2, 15, 7, 8, 4, 5, 13, 14, 9>>,
             <<3, 10, 4, 8, 2, 12, 11, 7, 14, 15, 13, 1, 5, 9, 6>>,
             <<<<5, 2>>, <<5, 6>>, <<3, 6>>, <<5, 2>>, <<2, 6>>, <<5, 4>>, <<2, 5>>,
               <<5, 6>>>>),
    \* rent on an unbuilt monopoly
    Scenario(2, 40000,
             <<10, 9, 1, 6, 7, 13, 5, 11, 14, 2, 15, 4, 12, 8, 3>>,
             <<14, 1, 11, 8, 2, 6, 4, 5, 12, 9, 3, 13, 15, 10, 7>>,
             <<<<6, 5>>, <<2, 6>>, <<2, 5>>, <<4, 3>>, <<2, 5>>, <<1, 6>>, <<3, 4>>,
               <<3, 3>>, <<2, 1>>, <<5, 4>>, <<5, 3>>, <<2, 1>>, <<4, 3>>, <<5, 2>>,
               <<3, 1>>, <<1, 3>>, <<6, 3>>>>),
    \* cash 1000, rent 6000, one square of mortgage value 3000
    Scenario(2, 12000,
             <<7, 8, 5, 3, 13, 4, 9, 6, 2, 15, 11, 1, 10, 12, 14>>,
             <<12, 3, 7, 8, 5, 13, 2, 4, 11, 6, 10, 9, 15, 14, 1>>,
             <<<<4, 4>>, <<3, 4>>, <<3, 4>>, <<6, 2>>, <<6, 6>>, <<2, 6>>, <<3, 4>>,
               <<4, 1>>, <<2, 5>>, <<2, 6>>>>),
    \* three players with the default starting money
    Scenario(3, 250000,
             <<13, 11, 7, 12, 15, 1, 5, 2, 8, 14, 6, 3, 9, 10, 4>>,
             <<5, 1, 10, 15, 11, 6, 2, 3, 7, 13, 14, 8, 9, 12, 4>>,
             <<<<6, 1>>, <<2, 5>>, <<1, 3>>, <<1, 3>>, <<4, 5>>, <<6, 4>>, <<6, 4>>,
               <<4, 6>>, <<5, 4>>, <<2, 3>>, <<1, 1>>, <<2, 4>>, <<2, 3>>, <<6, 4>>,
               <<6, 3>>, <<4, 5>>, <<4, 5>>, <<3, 5>>, <<5, 4>>, <<5, 2>>, <<3, 6>>,
               <<1, 3>>, <<5, 6>>, <<6, 2>>, <<6, 3>>>>),
    \* two players of equal net worth at the ceiling
    Scenario(2, 3400,
             <<5, 11, 13, 12, 9, 7, 6, 2, 14, 8, 10, 1, 4, 3, 15>>,
             <<2, 13, 8, 4, 14, 12, 5, 11, 15, 7, 9, 3, 10, 6, 1>>,
             <<<<1, 5>>, <<5, 6>>, <<5, 1>>, <<6, 3>>, <<5, 3>>, <<3, 2>>, <<4, 3>>,
               <<6, 5>>, <<2, 3>>, <<3, 6>>, <<6, 2>>, <<4, 1>>, <<3, 5>>, <<1, 4>>,
               <<3, 5>>, <<3, 5>>>>),
    \* a liquidation that sells the houses of one square and keeps the other's
    Scenario(2, 6000,
             <<14, 6, 5, 7, 11, 3, 10, 8, 1, 13, 15, 12, 2, 9, 4>>,
             <<4, 7, 11, 14, 2, 10, 6, 8, 12, 3, 13, 15, 5, 9, 1>>,
             <<<<1, 2>>, <<1, 6>>, <<3, 1>>, <<2, 4>>, <<6, 3>>, <<4, 5>>, <<4, 4>>,
               <<2, 3>>, <<1, 4>>, <<3, 1>>, <<3, 6>>, <<6, 6>>, <<1, 3>>, <<6, 5>>,
               <<3, 1>>, <<2, 3>>, <<2, 4>>, <<6, 5>>>>),
    \* a liquidation that sells all houses, then mortgages two squares of three
    Scenario(2, 3400,
             <<5, 11, 4, 9, 8, 3, 1, 12, 14, 15, 7, 10, 13, 2, 6>>,
             <<12, 10, 8, 5, 9, 2, 13, 7, 14, 6, 1, 11, 4, 3, 15>>,
             <<<<1, 3>>, <<1, 2>>, <<2, 4>>, <<2, 6>>, <<4, 1>>, <<4, 4>>, <<6, 3>>,
               <<1, 5>>, <<3, 4>>, <<6, 1>>, <<3, 2>>, <<1, 1>>, <<1, 6>>, <<5, 2>>,
               <<1, 5>>, <<6, 2>>, <<5, 5>>, <<5, 1>>>>),
    \* a player with a built monopoly sells, mortgages and still goes bankrupt
    Scenario(2, 3400,
             <<5, 11, 6, 2, 12, 15, 9, 14, 8, 4, 3, 10, 13, 7, 1>>,
             <<14, 2, 8, 11, 4, 12, 9, 7, 6, 5, 1, 13, 3, 10, 15>>,
             <<<<4, 2>>, <<1, 2>>, <<2, 4>>, <<3, 5>>, <<4, 4>>, <<3, 4>>, <<2, 6>>,
               <<1, 6>>, <<2, 4>>, <<2, 3>>, <<1, 5>>, <<5, 4>>, <<2, 1>>, <<3, 1>>,
               <<4, 3>>, <<6, 4>>, <<3, 3>>, <<5, 6>>>>),
    \* a player with houses fails a rent: the creditor takes the squares
    Scenario(3, 3400,
             <<11, 1, 2, 7, 6, 4, 14, 9, 8, 3, 15, 13, 5, 12, 10>>,
             <<11, 8, 5, 13, 2, 15, 9, 4, 14, 1, 7, 6, 12, 3, 10>>,
             <<<<1, 3>>, <<4, 3>>, <<3, 1>>, <<3, 5>>, <<4, 6>>, <<1, 1>>, <<5, 3>>,
               <<1, 2>>, <<6, 6>>, <<1, 1>>, <<3, 4>>, <<6, 3>>, <<5, 3>>, <<5, 2>>,
               <<5, 5>>, <<5, 5>>, <<3, 4>>, <<1, 5>>, <<6, 4>>, <<2, 6>>, <<4, 5>>,
               <<5, 4>>, <<5, 6>>, <<2, 6>>, <<6, 6>>, <<2, 4>>>>),
    \* a whole group with one square mortgaged, and cash for a house
    Scenario(2, 3400,
             <<3, 11, 7, 6, 2, 8, 15, 4, 13, 5, 14, 10, 9, 12, 1>>,
             <<7, 10, 6, 8, 2, 11, 1, 4, 13, 5, 9, 14, 3, 12, 15>>,
             <<<<4, 2>>, <<6, 5>>, <<6, 1>>, <<5, 6>>, <<1, 4>>, <<1, 1>>, <<6, 6>>,
               <<3, 1>>, <<6, 4>>, <<3, 3>>, <<5, 5>>, <<6, 3>>, <<2, 2>>, <<5, 1>>,
               <<6, 3>>>>)
  }

\* Orders random.shuffle may give the 15 normal cards of a deck when a deck is
\* rebuilt: the ones of the recorded games.
ShuffleOrders == {sc.chance : sc \in Scenarios} \cup {sc.community : sc \in Scenarios}

\* The orders a step may need: one for each deck that can run out during it
\* (a step draws at most one card).
RebuildOrders(deck) == IF Len(deck) <= 1 THEN ShuffleOrders ELSE {<<>>}

(***************************************************************************)
(* THE GAME LOOP (lines 284-315, 730-753)                                  *)
(***************************************************************************)
\* BabopolyGame.__init__ (lines 284-315), with the random source it will read.
NewGame(sc) ==
  /\ num_players = sc.n
  /\ starting_money = sc.sm
  /\ players = [i \in 0..(sc.n - 1) |-> NewPlayer(sc.sm)]
  /\ ownership = NewOwnership
  /\ chance_deck = MakeDeck(CHANCE_CARDS, sc.chance)
  /\ community_deck = MakeDeck(COMMUNITY_CARDS, sc.community)
  /\ round_count = 0
  /\ turn_count = 0
  /\ stats = NewStats(sc.n)
  /\ pc = "round"
  /\ seat = 0
  /\ script = sc.rolls
  /\ free_rolls = 0
  /\ log = <<>>

Init == \E sc \in Scenarios : NewGame(sc)

\* The step leaves the game's fields as they are.
SameGame ==
  UNCHANGED << players, ownership, chance_deck, community_deck, stats >>

\* `self.round_count += 1` and the start of the for loop (lines 732-734).
StartRound ==
  /\ pc = "round"
  /\ round_count' = round_count + 1
  /\ seat' = 0
  /\ pc' = "turns"
  /\ log' = <<>>
  /\ SameGame
  /\ UNCHANGED << num_players, starting_money, turn_count, script, free_rolls >>

\* A bankrupt player's seat in the for loop (line 735).
SkipSeat ==
  /\ pc = "turns"
  /\ seat < num_players
  /\ players[seat].bankrupt
  /\ seat' = seat + 1
  /\ log' = <<>>
  /\ SameGame
  /\ UNCHANGED << num_players, starting_money, round_count, turn_count, pc, script, free_rolls >>

\* The start of _play_turn for a solvent player (lines 686-690).
BeginTurn ==
  /\ pc = "turns"
  /\ seat < num_players
  /\ ~players[seat].bankrupt
  /\ players' = [players EXCEPT ![seat].consec_doubles = 0]
  /\ pc' = "roll"
  /\ log' = <<>>
  /\ UNCHANGED << num_players, starting_money, ownership, chance_deck, community_deck,
                  round_count, turn_count, stats, seat, script, free_rolls >>

\* One pass of the while loop of _play_turn with the roll <<d1, d2>>, and the
\* end of the turn (line 726) when the loop is left.
PassResult(r) ==
  /\ players' = r.g.players
  /\ ownership' = r.g.ownership
  /\ chance_deck' = r.g.chance_deck
  /\ community_deck' = r.g.community_deck
  /\ stats' = r.g.stats
  /\ log' = r.g.log
  /\ pc' = IF r.again THEN "roll" ELSE "turns"
  /\ seat' = IF r.again THEN seat ELSE seat + 1
  /\ turn_count' = IF r.again THEN turn_count ELSE turn_count + 1

\* Mutant of Pass: the player's squares are gone through in either order, as
\* if the list were a set.
PassAnyOrder(d1, d2) ==
  /\ pc = "roll"
  /\ \E c \in RebuildOrders(chance_deck), m \in RebuildOrders(community_deck), back \in BOOLEAN :
       PassResult(TurnPass(IF back
                           THEN [Game EXCEPT !.players[seat].properties =
                                   [i \in 1..Len(@) |-> @[Len(@) + 1 - i]]]
                           ELSE Game,
                           seat, d1, d2, [chance |-> c, community |-> m]))
  /\ UNCHANGED << num_players, starting_money, round_count >>

Pass(d1, d2) ==
  /\ pc = "roll"
  /\ \E c \in RebuildOrders(chance_deck), m \in RebuildOrders(community_deck) :
       PassResult(TurnPass(Game, seat, d1, d2, [chance |-> c, community |-> m]))
  /\ UNCHANGED << num_players, starting_money, round_count >>

\* The pass takes the next roll of the recorded stream.
RecordedRoll ==
  /\ script # <<>>
  /\ Pass(Head(script)[1], Head(script)[2])
  /\ script' = Tail(script)
  /\ UNCHANGED free_rolls

\* The pass takes any roll, and the game leaves its recorded stream.
FreeRoll ==
  /\ free_rolls < FreeRolls
  /\ \E d1 \in DieFaces, d2 \in DieFaces : Pass(d1, d2)
  /\ script' = <<>>
  /\ free_rolls' = free_rolls + 1

\* active (line 738).
Active == {i \in Seats : ~players[i].bankrupt}

\* Player.net_worth (lines 261-275) over props from index i on.
RECURSIVE AssetWorth(_, _, _)
AssetWorth(own, props, i) ==
  IF i > Len(props) THEN 0
  ELSE LET pos == props[i]
           ow  == own[pos]
           sq  == BOARD[pos]
           w   == IF ow.mortgaged THEN sq.mortgage
                  ELSE sq.price + (IF ow.buildings > 0 /\ sq.type = "property"
                                   THEN (ow.buildings * GROUPS[sq.group].house_cost) \div 2
                                   ELSE 0)
       IN  w + AssetWorth(own, props, i + 1)

NetWorth(i) == players[i].money + AssetWorth(ownership, players[i].properties, 1)

\* Mutant of Richest: the player with the most cash wins.
RichestInCash(active) ==
  CHOOSE w \in active :
    /\ \A i \in active : players[w].money >= players[i].money
    /\ \A i \in active : players[i].money = players[w].money => w <= i

\* max(active, key=net_worth) (line 746): the first of the richest, in seat
\* order.
Richest(active) ==
  CHOOSE w \in active :
    /\ \A i \in active : NetWorth(w) >= NetWorth(i)
    /\ \A i \in active : NetWorth(i) = NetWorth(w) => w <= i

\* The end of run (lines 751-753) with the winner and the timeout flag.
Return(winner, timed_out) ==
  /\ stats' = [stats EXCEPT !.winner = winner, !.timed_out = timed_out,
                            !.rounds = round_count, !.turns = turn_count]
  /\ pc' = "done"
  /\ log' = <<>>
  /\ UNCHANGED << num_players, starting_money, players, ownership, chance_deck,
                  community_deck, round_count, turn_count, seat, script, free_rolls >>

\* Mutant of LastStanding: the first seat wins whoever is left.
FirstSeat(active) == IF active # {} THEN 0 ELSE None

\* `active[0].id if active else -1` (line 741): the first player left, in
\* seat order.
LastStanding(active) ==
  IF active # {} THEN CHOOSE i \in active : \A j \in active : i <= j ELSE None

\* Mutant of EndByElimination: the test is made at every seat.
EndAtAnySeat ==
  /\ pc = "turns"
  /\ Cardinality(Active) <= 1
  /\ Return(LastStanding(Active), stats.timed_out)

\* The for loop is over and at most one player is left (lines 740-742).
EndByElimination ==
  /\ pc = "turns"
  /\ seat = num_players
  /\ Cardinality(Active) <= 1
  /\ Return(LastStanding(Active), stats.timed_out)

\* Mutant of AtCeiling: the test is off by one.
AtCeilingOffByOne == round_count > MAX_ROUNDS

\* `self.round_count >= MAX_ROUNDS` (line 744).
AtCeiling == round_count >= MAX_ROUNDS

\* The for loop is over at the ceiling (lines 744-749).
EndByCeiling ==
  /\ pc = "turns"
  /\ seat = num_players
  /\ Cardinality(Active) > 1
  /\ AtCeiling
  /\ Return(Richest(Active), TRUE)

\* The for loop is over and the while loop goes round again.
NextRound ==
  /\ pc = "turns"
  /\ seat = num_players
  /\ Cardinality(Active) > 1
  /\ ~AtCeiling
  /\ pc' = "round"
  /\ log' = <<>>
  /\ SameGame
  /\ UNCHANGED << num_players, starting_money, round_count, turn_count, seat, script, free_rolls >>

Next ==
  \/ StartRound
  \/ SkipSeat
  \/ BeginTurn
  \/ RecordedRoll
  \/ FreeRoll
  \/ EndByElimination
  \/ EndByCeiling
  \/ NextRound

Spec == Init /\ [][Next]_vars

(***************************************************************************)
(* A SOURCE THAT NEVER RUNS DRY.  random.randint always returns: once the  *)
(* recorded stream and the free rolls are used up, roll() (lines 338-340)  *)
(* goes on with the rolls below, over and over, and the game runs to its   *)
(* return.                                                                 *)
(***************************************************************************)
EndlessRolls ==
  << <<3, 3>>, <<2, 2>>, <<5, 5>>, <<1, 2>>, <<6, 4>>, <<4, 4>>, <<2, 5>> >>

Refill ==
  /\ pc = "roll"
  /\ script = <<>>
  /\ free_rolls >= FreeRolls
  /\ script' = EndlessRolls
  /\ log' = <<>>
  /\ SameGame
  /\ UNCHANGED << num_players, starting_money, round_count, turn_count, pc, seat, free_rolls >>

NextLive ==
  \/ Next
  \/ Refill

\* The steps of run() and _play_turn that wait for no roll.
Control ==
  \/ StartRound
  \/ SkipSeat
  \/ BeginTurn
  \/ EndByElimination
  \/ EndByCeiling
  \/ NextRound
  \/ Refill

\* The states in which RecordedRoll or FreeRoll can be taken.
RollAvailable == pc = "roll" /\ (script # <<>> \/ free_rolls < FreeRolls)

\* A call of roll() returns: weak fairness of the passes, with their
\* enabling condition written out.
TakesRoll == []<>~RollAvailable \/ []<><<RollAvailable>>_vars

\* run() is one thread of control that takes its next step whenever it has
\* one.
SpecLive == Init /\ [][NextLive]_vars /\ WF_vars(Control) /\ TakesRoll

(***************************************************************************)
(* CONSTRUCTION WITH ANY ARGUMENTS.  __init__ (lines 284-315) takes the    *)
(* player count and the starting money as they come; these are recorded    *)
(* games of configurations outside 2..8 players or without positive money. *)
(***************************************************************************)
InvalidScenarios ==
  {
    \* one player
    Scenario(1, 20000,
             <<15, 11, 1, 14, 7, 6, 4, 9, 8, 12, 5, 2, 13, 10, 3>>,
             <<3, 4, 12, 11, 8, 2, 6, 5, 9, 15, 10, 13, 7, 14, 1>>,
             <<<<1, 1>>, <<6, 5>>>>),
    \* starting money 0
    Scenario(2, 0,
             <<15, 11, 1, 14, 7, 6, 4, 9, 8, 12, 5, 2, 13, 10, 3>>,
             <<3, 4, 12, 11, 8, 2, 6, 5, 9, 15, 10, 13, 7, 14, 1>>,
             <<<<1, 1>>, <<6, 5>>>>),
    \* starting money below 0
    Scenario(2, -4000,
             <<10, 4, 7, 13, 11, 8, 9, 5, 3, 6, 12, 2, 1, 15, 14>>,
             <<4, 10, 2, 13, 1, 3, 5, 8, 14, 6, 9, 12, 15, 11, 7>>,
             <<<<3, 4>>, <<4, 5>>, <<2, 5>>, <<2, 2>>, <<2, 1>>, <<2, 3>>, <<2, 2>>,
               <<5, 5>>, <<3, 5>>, <<6, 5>>, <<2, 4>>, <<4, 6>>, <<5, 3>>, <<5, 3>>,
               <<3, 4>>, <<2, 4>>, <<6, 6>>, <<4, 6>>, <<5, 2>>>>),
    \* nine players
    Scenario(9, 3400,
             <<10, 14, 6, 9, 15, 11, 1, 13, 3, 8, 7, 12, 2, 5, 4>>,
             <<10, 8, 7, 14, 11, 13, 1, 4, 12, 2, 3, 5, 6, 15, 9>>,
             <<<<3, 3>>, <<6, 6>>, <<3, 1>>, <<5, 3>>, <<6, 4>>, <<5, 2>>, <<2, 2>>,
               <<4, 3>>, <<1, 5>>, <<3, 1>>, <<3, 5>>, <<6, 3>>, <<5, 2>>, <<4, 4>>,
               <<5, 3>>, <<4, 4>>, <<2, 2>>, <<3, 3>>, <<1, 1>>, <<1, 4>>, <<6, 3>>,
               <<5, 5>>, <<6, 4>>, <<6, 3>>, <<2, 6>>, <<2, 1>>, <<4, 2>>, <<6, 6>>,
               <<4, 3>>, <<2, 3>>, <<4, 6>>, <<5, 3>>, <<6, 5>>, <<2, 3>>, <<1, 1>>,
               <<6, 2>>, <<3, 5>>, <<5, 2>>, <<1, 3>>, <<2, 3>>, <<4, 1>>, <<1, 3>>,
               <<6, 1>>, <<3, 6>>, <<6, 3>>, <<1, 3>>, <<3, 3>>, <<2, 6>>, <<4, 5>>,
               <<6, 1>>, <<3, 5>>, <<2, 4>>, <<3, 2>>, <<3, 4>>, <<5, 2>>, <<3, 5>>,
               <<1, 3>>, <<1, 4>>, <<2, 3>>, <<3, 3>>, <<5, 1>>, <<4, 2>>, <<4, 2>>,
               <<1, 1>>, <<1, 1>>, <<6, 2>>, <<5, 6>>, <<2, 5>>, <<1, 5>>, <<4, 5>>,
               <<2, 3>>, <<1, 1>>, <<5, 3>>>>)
  }

InitAnyConfig == \E sc \in Scenarios \cup InvalidScenarios : NewGame(sc)

SpecAnyConfig == InitAnyConfig /\ [][Next]_vars

(***************************************************************************)
(* THE DECKS ALONE.  The two decks of a newly constructed game, drawn from *)
(* in any order and for any number of cycles.  Here log holds, for each    *)
(* deck, its last draw: the card, the cards drawn so far in the deck's     *)
(* current cycle (the last included) and whether the deck has ever been    *)
(* rebuilt.                                                                *)
(***************************************************************************)
InitDeck == \E c \in ShuffleOrders, m \in ShuffleOrders : NewGame(Scenario(2, 20000, c, m, <<>>))

LastDraw(deck) == SelectSeq(log, LAMBDA e : e.deck = deck)

DrawEntry(deck, card, rebuilt, last) ==
  [op |-> "draw", deck |-> deck, card |-> card,
   cycle |-> (IF rebuilt \/ last = <<>> THEN <<>> ELSE last[1].cycle) \o << card >>,
   reshuffled |-> rebuilt \/ (last # <<>> /\ last[1].reshuffled)]

\* self._draw_chance() (line 623).
ChanceDrawn(d, rebuilt) ==
  /\ chance_deck' = d.g.chance_deck
  /\ log' = << DrawEntry("chance", d.card, rebuilt, LastDraw("chance")) >> \o LastDraw("community")

DrawFromChance ==
  /\ \E perm \in RebuildOrders(chance_deck) :
       ChanceDrawn(DrawChance(Game, perm), chance_deck = <<>>)
  /\ UNCHANGED << num_players, starting_money, players, ownership, community_deck, round_count,
                  turn_count, stats, pc, seat, script, free_rolls >>

\* self._draw_community() (line 627).
CommunityDrawn(d, rebuilt) ==
  /\ community_deck' = d.g.community_deck
  /\ log' = LastDraw("chance") \o << DrawEntry("community", d.card, rebuilt, LastDraw("community")) >>

DrawFromCommunity ==
  /\ \E perm \in RebuildOrders(community_deck) :
       CommunityDrawn(DrawCommunity(Game, perm), community_deck = <<>>)
  /\ UNCHANGED << num_players, starting_money, players, ownership, chance_deck, round_count,
                  turn_count, stats, pc, seat, script, free_rolls >>

NextDeck ==
  \/ DrawFromChance
  \/ DrawFromCommunity

SpecDeck == InitDeck /\ [][NextDeck]_vars

(***************************************************************************)
(* PROPERTIES                                                              *)
(***************************************************************************)
\* No solvent player of the snapshot s has negative cash.
CashOk(s) == \A i \in DOMAIN s.players : ~s.players[i].bankrupt => s.players[i].money >= 0

\* C1: every non-bankrupt player's cash is >= 0 in every state between steps
\* and after every completed charge, purchase, build, bail payment, card
\* payment and card effect.
CashNeverNegative ==
  /\ \A i \in Seats : ~players[i].bankrupt => players[i].money >= 0
  /\ \A k \in DOMAIN log : CashOk(log[k].post)

\* Witness of C1: a charge larger than the player's cash has just been paid
\* after a liquidation, and the player is still in the game.
ChargePaidAfterLiquidation ==
  \E k \in DOMAIN log :
    /\ log[k].op = "charge"
    /\ log[k].pre.players[log[k].p].money < log[k].amount
    /\ log[k].mid.ownership # log[k].pre.ownership
    /\ ~log[k].post.players[log[k].p].bankrupt

\* Every bankrupt player of the snapshot s has no cash and no square.
Cleared(s) ==
  \A i \in DOMAIN s.players :
    s.players[i].bankrupt => s.players[i].money = 0 /\ s.players[i].properties = <<>>

\* C2: a bankrupt player has cash 0 and an empty list of squares right after
\* the bankruptcy and in every later state, whoever the debt was owed to.
BankruptPlayerCleared ==
  /\ \A i \in Seats : players[i].bankrupt => players[i].money = 0 /\ players[i].properties = <<>>
  /\ \A k \in DOMAIN log : Cleared(log[k].post)

\* Witness of C2: operations have just completed in a game where a player was
\* already bankrupt before them.
BankruptPlayerOutlived ==
  \E i \in Seats :
    /\ players[i].bankrupt
    /\ log # <<>>
    /\ \A k \in DOMAIN log : log[k].pre.players[i].bankrupt

\* C3: in the returned result, timed_out is true if and only if rounds equals
\* the ceiling.
TimedOutIffAtCeiling == pc = "done" => (stats.timed_out <=> stats.rounds = MAX_ROUNDS)

\* C4: the round counter never exceeds the ceiling, and the rounds of the
\* returned result are between 1 and the ceiling.
RoundsWithinCeiling ==
  /\ round_count <= MAX_ROUNDS
  /\ pc = "done" => stats.rounds \in 1..MAX_ROUNDS

\* Witness of C4: a game has returned at the ceiling.
ReturnedAtCeiling == pc = "done" /\ stats.rounds = MAX_ROUNDS /\ stats.timed_out

\* C5: a move_to card to position 0 gives the player who drew it GO_REWARD
\* once, in cash and in go_rewards.
MoveToStartCreditsOnce ==
  \A k \in DOMAIN log :
    (log[k].op = "card" /\ log[k].card.effect = "move_to" /\ log[k].card.value = 0)
      => /\ log[k].post.players[log[k].p].money
              = log[k].pre.players[log[k].p].money + GO_REWARD
         /\ log[k].post.stats.go_rewards[log[k].p]
              = log[k].pre.stats.go_rewards[log[k].p] + GO_REWARD

\* C6: no game exists with a player count outside 2..8 or a starting money
\* <= 0, and run returns no result for one.
InvalidConfigRejected ==
  (num_players \notin 2..8 \/ starting_money <= 0) => pc # "done"

RECURSIVE CashFrom(_, _)
CashFrom(pl, i) == IF i \notin DOMAIN pl THEN 0 ELSE pl[i].money + CashFrom(pl, i + 1)

\* The sum of all players' cash.
CashSum(pl) == CashFrom(pl, 0)

\* From snapshot a to snapshot b the payer lost exactly what the payee gained,
\* and the sum of all cash is the same.
Balanced(a, b, payer, payee) ==
  /\ a.players[payer].money - b.players[payer].money
       = b.players[payee].money - a.players[payee].money
  /\ CashSum(a.players) = CashSum(b.players)

\* C7: a paid charge with a creditor, each payment of a pay_each card, each
\* collection of a receive_from_each card and the cash handed over at a
\* bankruptcy with a creditor take from the payer exactly what they give the
\* payee, and leave the sum of all cash unchanged.
TransfersBalanced ==
  \A k \in DOMAIN log :
    /\ (log[k].op = "charge" /\ log[k].q # None /\ log[k].mid.players[log[k].p].money >= log[k].amount)
         => /\ Balanced(log[k].mid, log[k].post, log[k].p, log[k].q)
            /\ log[k].post.players[log[k].q].money
                 = log[k].mid.players[log[k].q].money + log[k].amount
    /\ log[k].op \in {"pay_each", "receive_from_each"}
         => /\ Balanced(log[k].pre, log[k].post, log[k].p, log[k].q)
            /\ log[k].post.players[log[k].q].money
                 = log[k].pre.players[log[k].q].money + log[k].amount
    /\ (log[k].op = "bankrupt" /\ log[k].q # None)
         => /\ Balanced(log[k].pre, log[k].post, log[k].p, log[k].q)
            /\ log[k].post.players[log[k].q].money
                 = log[k].pre.players[log[k].q].money + log[k].pre.players[log[k].p].money

\* Witness of C7: a rent has just been paid to its owner.
RentPaidToOwner ==
  \E k \in DOMAIN log :
    /\ log[k].op = "charge"
    /\ log[k].q # None
    /\ log[k].amount > 0
    /\ ~log[k].post.players[log[k].p].bankrupt

\* What the liquidation between ownership maps a and b raised on the squares
\* props from index i on: half the cost of the buildings sold and the
\* mortgage value of the squares mortgaged.
RECURSIVE Proceeds(_, _, _, _)
Proceeds(a, b, props, i) ==
  IF i > Len(props) THEN 0
  ELSE (IF BOARD[props[i]].type = "property" /\ b[props[i]].buildings < a[props[i]].buildings
        THEN (a[props[i]].buildings * GROUPS[BOARD[props[i]].group].house_cost) \div 2 ELSE 0)
       + (IF b[props[i]].mortgaged /\ ~a[props[i]].mortgaged
          THEN BOARD[props[i]].mortgage ELSE 0)
       + Proceeds(a, b, props, i + 1)

\* The charge of log entry e was owed to a solvent creditor and was not met.
FailedToCreditor(e) ==
  /\ e.op = "charge"
  /\ e.q # None
  /\ ~e.pre.players[e.q].bankrupt
  /\ ~e.pre.players[e.p].bankrupt
  /\ e.post.players[e.p].bankrupt

\* C8: after a charge to a solvent creditor that liquidation could not meet,
\* the debtor has cash 0 and is recorded bankrupt, every square the debtor
\* held is the creditor's and mortgaged, and the creditor has gained the
\* debtor's cash after liquidation (cash before the charge plus the
\* proceeds), which is less than the amount owed.
BankruptcyToCreditor ==
  \A k \in DOMAIN log :
    FailedToCreditor(log[k])
      => /\ log[k].post.players[log[k].p].money = 0
         /\ log[k].post.players[log[k].p].properties = <<>>
         /\ log[k].p \in SeqToSet(log[k].post.stats.bankrupt_order)
         /\ log[k].p \notin SeqToSet(log[k].pre.stats.bankrupt_order)
         /\ \A pos \in SeqToSet(log[k].pre.players[log[k].p].properties) :
              /\ log[k].post.ownership[pos].owner = log[k].q
              /\ log[k].post.ownership[pos].mortgaged
              /\ pos \in SeqToSet(log[k].post.players[log[k].q].properties)
         /\ log[k].mid.players[log[k].p].money
              = log[k].pre.players[log[k].p].money
                + Proceeds(log[k].pre.ownership, log[k].mid.ownership,
                           log[k].pre.players[log[k].p].properties, 1)
         /\ log[k].mid.players[log[k].p].money < log[k].amount
         /\ log[k].post.players[log[k].q].money
              = log[k].pre.players[log[k].q].money + log[k].mid.players[log[k].p].money

\* Witness of C8: cash 1000, a rent of 6000 and one unbuilt, unmortgaged
\* property of mortgage value 3000 have just given the creditor 4000.
CreditorGetsFourThousand ==
  \E k \in DOMAIN log :
    /\ FailedToCreditor(log[k])
    /\ log[k].amount = 6000
    /\ log[k].pre.players[log[k].p].money = 1000
    /\ Len(log[k].pre.players[log[k].p].properties) = 1
    /\ BOARD[log[k].pre.players[log[k].p].properties[1]].type = "property"
    /\ BOARD[log[k].pre.players[log[k].p].properties[1]].mortgage = 3000
    /\ log[k].pre.ownership[log[k].pre.players[log[k].p].properties[1]].buildings = 0
    /\ ~log[k].pre.ownership[log[k].pre.players[log[k].p].properties[1]].mortgaged
    /\ log[k].post.players[log[k].q].money = log[k].pre.players[log[k].q].money + 4000

\* The cards of a deck.
DeckCards(deck) == IF deck = "chance" THEN CHANCE_CARDS ELSE COMMUNITY_CARDS

\* How many times the card c is in the sequence cards.
Count(cards, c) == Cardinality({i \in DOMAIN cards : cards[i] = c})

\* C9: when a get-out-of-jail card is drawn, every other card of its deck has
\* been drawn before it in the same shuffle cycle.
JailCardLast ==
  \A k \in DOMAIN log :
    IsJailCard(log[k].card)
      => \A c \in SeqToSet(SelectSeq(DeckCards(log[k].deck), NotJailCard)) :
           Count(SubSeq(log[k].cycle, 1, Len(log[k].cycle) - 1), c)
             = Count(DeckCards(log[k].deck), c)

\* Witness of C9: a get-out-of-jail card has just been drawn from a deck that
\* has been rebuilt.
JailCardDrawnAfterRebuild ==
  \E k \in DOMAIN log : IsJailCard(log[k].card) /\ log[k].reshuffled

\* The colour properties of the board.
ColourPos == {pos \in DOMAIN BOARD : BOARD[pos].type = "property"}

\* The owner of pos holds every square of its group, none mortgaged.
WholeGroup(own, pos) ==
  \A q \in SeqToSet(GROUPS[BOARD[pos].group].positions) :
    own[q].owner = own[pos].owner /\ ~own[q].mortgaged

\* The rent C10 states for an owned, unmortgaged colour property.
StatedRent(own, pos) ==
  IF own[pos].buildings = 0
  THEN (IF WholeGroup(own, pos) THEN 2 * BOARD[pos].rent[1] ELSE BOARD[pos].rent[1])
  ELSE BOARD[pos].rent[own[pos].buildings + 1]

\* The ownership map own with b buildings on pos and, if m, with the other
\* squares of its group mortgaged.
Varied(own, pos, b, m) ==
  [q \in DOMAIN own |->
     IF q = pos THEN [own[q] EXCEPT !.buildings = b]
     ELSE IF m /\ q \in SeqToSet(GROUPS[BOARD[pos].group].positions)
          THEN [own[q] EXCEPT !.mortgaged = TRUE]
          ELSE own[q]]

\* C10: the rent of an owned, unmortgaged colour property with no building is
\* twice its tier-0 rent if its owner holds the whole group unmortgaged and
\* the tier-0 rent otherwise; with b >= 1 buildings it is tier b of its
\* schedule.  Stated of _rent for every owned, unmortgaged colour property of
\* the game, with the buildings it has and with any other number of them,
\* with its group as it is and with the rest of the group mortgaged; and of
\* every rent charged on a colour property.
ColourRentAsStated ==
  /\ \A pos \in ColourPos, b \in 0..5, m \in BOOLEAN :
       (ownership[pos].owner # None /\ ~ownership[pos].mortgaged)
         => Rent(Varied(ownership, pos, b, m), pos, 7, FALSE)
              = StatedRent(Varied(ownership, pos, b, m), pos)
  /\ \A k \in DOMAIN log :
       (/\ log[k].op = "charge"
        /\ log[k].q # None
        /\ log[k].pre.players[log[k].p].position \in ColourPos)
         => log[k].amount = StatedRent(log[k].pre.ownership, log[k].pre.players[log[k].p].position)

\* Witness of C10: a doubled rent has just been charged on an unbuilt property
\* of a group held whole.
DoubledRentCharged ==
  \E k \in DOMAIN log :
    /\ log[k].op = "charge"
    /\ log[k].q # None
    /\ log[k].pre.players[log[k].p].position \in ColourPos
    /\ log[k].pre.ownership[log[k].pre.players[log[k].p].position].buildings = 0
    /\ WholeGroup(log[k].pre.ownership, log[k].pre.players[log[k].p].position)
    /\ log[k].amount = 2 * BOARD[log[k].pre.players[log[k].p].position].rent[1]


\* C11: a game that returned without the timeout flag names as winner the one
\* player left when exactly one is left, and nobody (-1) when none is left;
\* in every result a winner is a seat of the game whose player is not
\* bankrupt.
WinnerIsLastStanding ==
  pc = "done" =>
    /\ ~stats.timed_out =>
         /\ Cardinality(Active) <= 1
         /\ \A i \in Active : stats.winner = i
         /\ Active = {} => stats.winner = None
    /\ stats.winner # None =>
         /\ stats.winner \in Seats
         /\ ~players[stats.winner].bankrupt

\* Witness of C11: a game returned by elimination with the second seat as
\* the one player left.
SecondSeatOutlasts ==
  /\ pc = "done"
  /\ ~stats.timed_out
  /\ stats.winner = 1
  /\ Active = {1}


\* The worth of the square pos as stated: its mortgage value if mortgaged,
\* else its price plus half of buildings x house cost.
SquareWorth(pos) ==
  IF ownership[pos].mortgaged THEN BOARD[pos].mortgage
  ELSE BOARD[pos].price
       + (IF BOARD[pos].type = "property"
          THEN (ownership[pos].buildings * GROUPS[BOARD[pos].group].house_cost) \div 2
          ELSE 0)

RECURSIVE WorthOf(_)
WorthOf(squares) ==
  IF squares = {} THEN 0
  ELSE LET pos == CHOOSE q \in squares : TRUE
       IN  SquareWorth(pos) + WorthOf(squares \ {pos})

\* Cash plus the worth of every square of player i's list.
StatedWorth(i) == players[i].money + WorthOf(SeqToSet(players[i].properties))

\* C12: a game that returned at the ceiling names as winner a solvent player
\* of maximal net worth, the one of the lowest seat among those of equal
\* maximal net worth.
CeilingWinnerIsRichest ==
  pc = "done" /\ stats.timed_out =>
    /\ Cardinality(Active) >= 2
    /\ stats.winner \in Active
    /\ \A i \in Active :
         /\ StatedWorth(stats.winner) >= StatedWorth(i)
         /\ StatedWorth(i) = StatedWorth(stats.winner) => stats.winner <= i

\* Witness of C12: a game returned at the ceiling with two players of equal
\* maximal net worth.
CeilingTie ==
  /\ pc = "done"
  /\ stats.timed_out
  /\ \E i \in Active : i # stats.winner /\ StatedWorth(i) = StatedWorth(stats.winner)


\* How far run() has come: rounds are counted up to the ceiling, seats within
\* a round, and rolls within a turn by the doubles in a row (three at most).
TurnRank ==
  CASE pc = "turns" -> 4 * seat
    [] pc = "roll"  -> 4 * seat + 1 + players[seat].consec_doubles
    [] pc = "round" -> 4 * num_players + 1
    [] OTHER        -> 4 * num_players + 2

Progress ==
  2 * (round_count * (4 * num_players + 3) + TurnRank) + (IF script = <<>> THEN 0 ELSE 1)

ProgressBounded ==
  /\ Progress <= 2 * (MAX_ROUNDS * (4 * num_players + 3) + 4 * num_players + 2) + 1
  /\ pc = "roll" => players[seat].consec_doubles \in 0..2
  /\ \A pos \in DOMAIN ownership : ownership[pos].buildings \in 0..5

\* C13: run returns.  Every step of the game moves it on (a further roll of
\* the turn only after one more double in a row, of which there are at most
\* three; the next seat; the next round, up to the ceiling), buildings stay
\* within five a square so that a build pass ends, and with a random source
\* that never runs dry every game reaches its return.
RunReturns ==
  /\ []ProgressBounded
  /\ [][Progress' > Progress]_vars
  /\ <>(pc = "done")

\* Witness of C13: a player who rolled two doubles in a row rolls again.
ThirdRollOfTurn ==
  /\ pc = "roll"
  /\ players[seat].consec_doubles = 2


\* The step ends in the game r.g, at the next roll of the turn or at the
\* next seat.
EndsIn(r) ==
  /\ << players', ownership', chance_deck', community_deck', stats' >>
       = << r.g.players, r.g.ownership, r.g.chance_deck, r.g.community_deck, r.g.stats >>
  /\ << pc', seat', turn_count' >>
       = IF r.again THEN << "roll", seat, turn_count >>
         ELSE << "turns", seat + 1, turn_count + 1 >>
  /\ script' = Tail(script)

\* The number of steps of run() open to a game that waits for no roll.
ControlChoices ==
  Cardinality({k \in 1..6 :
    \/ k = 1 /\ ENABLED StartRound
    \/ k = 2 /\ ENABLED SkipSeat
    \/ k = 3 /\ ENABLED BeginTurn
    \/ k = 4 /\ ENABLED EndByElimination
    \/ k = 5 /\ ENABLED EndByCeiling
    \/ k = 6 /\ ENABLED NextRound})

Landed(g1, i, s) ==
  IF BOARD[g1.players[i].position].type = "go"
  THEN ApplySquare(g1, i, s, [chance |-> <<>>, community |-> <<>>])
  ELSE g1

\* The game b is the game a with player i at position pos and the bonus
\* credited `times` times.
MovedWithBonus(a, b, i, pos, times) ==
  /\ b.players[i].position = pos
  /\ b.players[i].money = a.players[i].money + times * GO_REWARD
  /\ b.stats.go_rewards[i] = a.stats.go_rewards[i] + times * GO_REWARD
  /\ b.ownership = a.ownership
  /\ \A j \in DOMAIN a.players : j # i => b.players[j] = a.players[j]

\* C15: from every position a player is at, a dice move of s squares leaves
\* the player at (p + s) mod 40 with the bonus credited once if p + s >= 40
\* and not at all otherwise.
DiceMoveBonusOnce ==
  \A i \in Seats : \A s \in 2..12 :
    ~players[i].bankrupt =>
      MovedWithBonus(Game, Landed(MoveSteps(Game, i, s), i, s), i,
                     (players[i].position + s) % BOARD_SIZE,
                     IF players[i].position + s >= BOARD_SIZE THEN 1 ELSE 0)

\* Witness of C15: a player stands on the start square after a first lap,
\* with the bonus credited once.
LandedOnStart ==
  \E i \in Seats :
    /\ players[i].position = 0
    /\ stats.go_rewards[i] = GO_REWARD
    /\ turn_count > 0


\* In the snapshot s the lists and the ledger agree.
ListsMatchLedger(s) ==
  \A i \in DOMAIN s.players :
    /\ \A q \in DOMAIN s.ownership :
         (\E k \in DOMAIN s.players[i].properties : s.players[i].properties[k] = q)
           <=> s.ownership[q].owner = i
    /\ \A k \in DOMAIN s.players[i].properties :
         /\ s.players[i].properties[k] \in DOMAIN s.ownership
         /\ \A l \in DOMAIN s.players[i].properties :
              s.players[i].properties[k] = s.players[i].properties[l] => k = l

\* C16: in every state, and after every operation, position q is in player
\* i's list if and only if the ledger owner of q is i, and no position occurs
\* twice in a list (hence not in the lists of two players either).
ListsAgreeWithLedger ==
  /\ ListsMatchLedger(Snap(Game))
  /\ \A k \in DOMAIN log : ListsMatchLedger(log[k].mid) /\ ListsMatchLedger(log[k].post)

\* Witness of C16: a bankrupt player's squares went to the creditor.
SquaresInherited ==
  \E k \in DOMAIN log :
    /\ log[k].op = "bankrupt"
    /\ log[k].q # None
    /\ log[k].pre.players[log[k].p].properties # <<>>
    /\ \A j \in DOMAIN log[k].pre.players[log[k].p].properties :
         log[k].post.ownership[log[k].pre.players[log[k].p].properties[j]].owner = log[k].q


\* In the snapshot s no square with buildings is mortgaged.
BuiltUnmortgaged(s) ==
  \A q \in DOMAIN s.ownership : s.ownership[q].buildings > 0 => ~s.ownership[q].mortgaged

\* C17: in every state, and before, during and after every operation
\* (building, the two passes of a liquidation, both settlements of a
\* bankruptcy), a square with buildings is not mortgaged.
NoBuiltSquareMortgaged ==
  /\ BuiltUnmortgaged(Snap(Game))
  /\ \A k \in DOMAIN log :
       BuiltUnmortgaged(log[k].pre) /\ BuiltUnmortgaged(log[k].mid) /\ BuiltUnmortgaged(log[k].post)

\* Witness of C17: a liquidation has left buildings on a square of the
\* player who raised funds.
BuildingsOutlastLiquidation ==
  \E k \in DOMAIN log :
    /\ log[k].op = "charge"
    /\ log[k].mid.ownership # log[k].pre.ownership
    /\ \E q \in DOMAIN ownership :
         ownership[q].owner = log[k].p /\ ownership[q].buildings > 0


\* What the squares props[i..] can raise in the snapshot s: half the cost of
\* the buildings, and the mortgage value of a square not yet mortgaged.
RECURSIVE LiquidationValue(_, _, _)
LiquidationValue(s, props, i) ==
  IF i > Len(props) THEN 0
  ELSE (IF BOARD[props[i]].type = "property"
        THEN (s.ownership[props[i]].buildings * GROUPS[BOARD[props[i]].group].house_cost) \div 2
        ELSE 0)
       + (IF s.ownership[props[i]].mortgaged THEN 0 ELSE BOARD[props[i]].mortgage)
       + LiquidationValue(s, props, i + 1)

\* In the snapshot s player p has nothing left to liquidate.
NothingLeft(s, p) ==
  \A k \in DOMAIN s.players[p].properties :
    /\ s.ownership[s.players[p].properties[k]].buildings = 0
    /\ s.ownership[s.players[p].properties[k]].mortgaged

\* C18: a player is declared bankrupt only with cash below the amount due
\* after liquidation and with every square unbuilt and mortgaged; a charge of
\* at most cash plus liquidation value bankrupts nobody (of the charges made,
\* and of a charge of exactly that much made in any state).
BankruptOnlyWhenDrained ==
  /\ \A i \in Seats :
       ~players[i].bankrupt =>
         ~Charge(Game, i,
                 players[i].money + LiquidationValue(Snap(Game), players[i].properties, 1),
                 None).players[i].bankrupt
  /\ \A k \in DOMAIN log :
    /\ log[k].op = "bankrupt" => NothingLeft(log[k].pre, log[k].p)
    /\ log[k].op = "charge" =>
         /\ log[k].post.players[log[k].p].bankrupt =>
              /\ log[k].mid.players[log[k].p].money < log[k].amount
              /\ NothingLeft(log[k].mid, log[k].p)
         /\ log[k].amount <= log[k].pre.players[log[k].p].money
                               + LiquidationValue(log[k].pre, log[k].pre.players[log[k].p].properties, 1)
              => ~log[k].post.players[log[k].p].bankrupt

\* Witness of C18: a player who held houses sold them, mortgaged the squares
\* and was declared bankrupt.
BuiltEstateDrained ==
  \E k \in DOMAIN log :
    /\ log[k].op = "charge"
    /\ log[k].post.players[log[k].p].bankrupt
    /\ \E q \in DOMAIN ownership :
         /\ log[k].pre.ownership[q].owner = log[k].p
         /\ log[k].pre.ownership[q].buildings > 0
         /\ log[k].mid.ownership[q].mortgaged


\* The places in props of the squares whose buildings were sold, and of the
\* squares that were mortgaged, between the ownership maps a and b.
SoldAt(a, b, props) == {k \in DOMAIN props : b[props[k]].buildings < a[props[k]].buildings}

MortgagedAt(a, b, props) == {k \in DOMAIN props : b[props[k]].mortgaged /\ ~a[props[k]].mortgaged}

LastOf(S) == CHOOSE k \in S : \A j \in S : j <= k

\* The liquidation that led from snapshot a to snapshot b to raise `needed`
\* for player p, whose squares are props, selling at the places sold and
\* mortgaging at the places mort.
OrderedLiquidation(a, b, p, needed, props, sold, mort) ==
  \* only p's cash and p's squares change, a sale leaves no building
  /\ b.players = [a.players EXCEPT ![p].money = b.players[p].money]
  /\ \A q \in DOMAIN a.ownership :
       /\ b.ownership[q].owner = a.ownership[q].owner
       /\ b.ownership[q].buildings \in {0, a.ownership[q].buildings}
       /\ a.ownership[q].mortgaged => b.ownership[q].mortgaged
       /\ a.ownership[q].owner # p => b.ownership[q] = a.ownership[q]
  \* each sale credits half the buildings' cost, each mortgage its value
  /\ b.players[p].money = a.players[p].money + Proceeds(a.ownership, b.ownership, props, 1)
  \* a mortgage only once every building is sold
  /\ mort # {} => \A k \in DOMAIN props : b.ownership[props[k]].buildings = 0
  \* both passes in the order of the list, skipping nothing
  /\ \A k \in sold : \A j \in 1..(k - 1) : a.ownership[props[j]].buildings > 0 => j \in sold
  /\ \A k \in mort : \A j \in 1..(k - 1) : ~a.ownership[props[j]].mortgaged => j \in mort
  \* before the last sale or mortgage cash was still short
  /\ mort # {} => b.players[p].money - BOARD[props[LastOf(mort)]].mortgage < needed
  /\ mort = {} /\ sold # {} =>
       b.players[p].money
         - (a.ownership[props[LastOf(sold)]].buildings
            * GROUPS[BOARD[props[LastOf(sold)]].group].house_cost) \div 2 < needed

\* C19: the liquidation of every charge sells in the order of the list, then
\* mortgages in the order of the list, a square being mortgaged only once
\* all buildings are sold; nothing is sold or mortgaged once cash reaches the
\* amount; a sale credits floor(buildings x house cost / 2), a mortgage the
\* mortgage value; a charge made with enough cash changes no ledger entry.
LiquidationInOrder ==
  \A k \in DOMAIN log :
    log[k].op = "charge" =>
      /\ OrderedLiquidation(log[k].pre, log[k].mid, log[k].p, log[k].amount,
                            log[k].pre.players[log[k].p].properties,
                            SoldAt(log[k].pre.ownership, log[k].mid.ownership,
                                   log[k].pre.players[log[k].p].properties),
                            MortgagedAt(log[k].pre.ownership, log[k].mid.ownership,
                                        log[k].pre.players[log[k].p].properties))
      /\ log[k].pre.players[log[k].p].money >= log[k].amount =>
           /\ log[k].mid = log[k].pre
           /\ log[k].post.ownership = log[k].pre.ownership

\* Witness of C19: a liquidation sold buildings, then mortgaged a square,
\* and left another square of the player unmortgaged.
SoldThenMortgagedInPart ==
  \E k \in DOMAIN log :
    /\ log[k].op = "charge"
    /\ SoldAt(log[k].pre.ownership, log[k].mid.ownership,
              log[k].pre.players[log[k].p].properties) # {}
    /\ MortgagedAt(log[k].pre.ownership, log[k].mid.ownership,
                   log[k].pre.players[log[k].p].properties) # {}
    /\ \E j \in DOMAIN log[k].pre.players[log[k].p].properties :
         ~log[k].mid.ownership[log[k].pre.players[log[k].p].properties[j]].mortgaged


\* The square q is as the board sets it up: unowned, unbuilt, unmortgaged.
Unowned(own, q) == own[q] = [owner |-> None, buildings |-> 0, mortgaged |-> FALSE]

\* The game with the players, ledger and statistics of the snapshot s.
GameAt(s) == [Game EXCEPT !.players = s.players, !.ownership = s.ownership, !.stats = s.stats]

\* Player j, landing on the unowned square q in the game g with the cash to
\* buy it, becomes its owner.
BoughtByLander(g, j, q) ==
  ShouldBuy(g, j, BOARD[q].price) =>
    LandOnOwnable(g, j, q, g.ownership[q], BOARD[q].price, 7).ownership[q]
      = [owner |-> j, buildings |-> 0, mortgaged |-> FALSE]

\* C20: when a player goes bankrupt on a debt to the bank, every square of
\* the player becomes unowned with 0 buildings and not mortgaged, and a
\* solvent player who lands on it with the cash to buy becomes its owner; no
\* other square and no other player changes.
BankTakesSquaresBack ==
  \A k \in DOMAIN log :
    log[k].op = "bankrupt" /\ log[k].q = None =>
      /\ \A q \in DOMAIN log[k].pre.ownership :
           IF log[k].pre.ownership[q].owner = log[k].p
           THEN /\ Unowned(log[k].post.ownership, q)
                /\ \A j \in DOMAIN log[k].post.players :
                     ~log[k].post.players[j].bankrupt => BoughtByLander(GameAt(log[k].post), j, q)
           ELSE log[k].post.ownership[q] = log[k].pre.ownership[q]
      /\ \A j \in DOMAIN log[k].pre.players :
           j # log[k].p => log[k].post.players[j] = log[k].pre.players[j]

\* Witness of C20: the bank took back a mortgaged square that another player
\* has the cash to buy.
MortgagedSquareReturned ==
  \E k \in DOMAIN log :
    /\ log[k].op = "bankrupt"
    /\ log[k].q = None
    /\ \E q \in DOMAIN log[k].pre.ownership :
         /\ log[k].pre.ownership[q].owner = log[k].p
         /\ log[k].pre.ownership[q].mortgaged
         /\ \E j \in DOMAIN log[k].post.players :
              /\ ~log[k].post.players[j].bankrupt
              /\ ShouldBuy(GameAt(log[k].post), j, BOARD[q].price)


\* The game g with player i sent to jail and nothing else touched.
JailedOnly(g, i) ==
  [g EXCEPT !.players[i] = [@ EXCEPT !.position = JAIL_POS, !.in_jail = TRUE,
                                     !.consec_doubles = 0, !.jail_turns = 0]]

\* The step takes the next recorded roll, a double.
RecordedDouble ==
  /\ script # <<>>
  /\ Head(script)[1] = Head(script)[2]
  /\ script' = Tail(script)
  /\ free_rolls' = free_rolls

\* Whatever double a player with two doubles in the turn rolls, the pass
\* leaves the game as it was but for the player in jail, and ends the loop.
ThirdDoubleOnlyJails ==
  (pc = "roll" /\ players[seat].consec_doubles = 2) =>
    \A d \in DieFaces :
      TurnPass(Game, seat, d, d, [chance |-> <<>>, community |-> <<>>])
        = [g |-> JailedOnly(Game, seat), again |-> FALSE]

\* C21: on the third consecutive double of a turn the player goes straight to
\* jail (jail square, in_jail, both counters 0) without moving by the roll,
\* without a square resolved or a build pass (no cash, ledger, deck or
\* statistic changes and no operation is logged), and the turn ends.
ThirdDoubleSendsToJail ==
  /\ []ThirdDoubleOnlyJails
  /\ [][(pc = "roll" /\ players[seat].consec_doubles = 2 /\ RecordedDouble) =>
          /\ players' = JailedOnly(Game, seat).players
          /\ UNCHANGED << ownership, chance_deck, community_deck, stats >>
          /\ log' = <<>>
          /\ pc' = "turns" /\ seat' = seat + 1 /\ turn_count' = turn_count + 1]_vars

\* Witness of C21: a player with two doubles in the turn is about to take a
\* recorded roll that is a third double, and no other roll can be taken.
ThirdDoubleNext ==
  /\ pc = "roll"
  /\ players[seat].consec_doubles = 2
  /\ free_rolls = FreeRolls
  /\ script # <<>>
  /\ Head(script)[1] = Head(script)[2]
  /\ players[seat].position # JAIL_POS


\* 1 for a double, 0 for any other roll.
DoubleCount(d1, d2) == IF d1 = d2 THEN 1 ELSE 0

\* The pass r of player i with the roll <<d1, d2>> from the game g goes round
\* again exactly after a double that leaves the player solvent and free, and
\* the counters of doubles move as lines 690, 704-707 and 365 say.
RollAgainRule(g, r, i, d1, d2) ==
  /\ r.again <=> (d1 = d2 /\ ~r.g.players[i].bankrupt /\ ~r.g.players[i].in_jail)
  /\ ~r.g.players[i].in_jail =>
       r.g.players[i].consec_doubles = g.players[i].consec_doubles + DoubleCount(d1, d2)
  /\ r.g.players[i].in_jail => r.g.players[i].consec_doubles = 0
  /\ r.again => r.g.players[i].consec_doubles \in 1..2
  /\ \A j \in DOMAIN g.players :
       j # i => r.g.players[j].consec_doubles = g.players[j].consec_doubles

\* The step takes a roll, recorded or free.
RollTaken ==
  \/ script # <<>> /\ script' = Tail(script) /\ free_rolls' = free_rolls
  \/ free_rolls' = free_rolls + 1

\* The rule holds for each of the 36 rolls the player about to roll may make.
RollAgainOnEveryRoll ==
  pc = "roll" =>
    /\ players[seat].consec_doubles \in 0..2
    /\ players[seat].in_jail => players[seat].consec_doubles = 0
    /\ \A d1 \in DieFaces, d2 \in DieFaces :
         \A c \in RebuildOrders(chance_deck), m \in RebuildOrders(community_deck) :
           \A r \in {TurnPass(Game, seat, d1, d2, [chance |-> c, community |-> m])} :
             RollAgainRule(Game, r, seat, d1, d2)

\* C22: a player rolls again in a turn if and only if the roll just resolved
\* was a double and left the player neither bankrupt nor in jail; the doubles
\* counter goes down only at the start of the turn and on jail entry, it counts
\* the rolls already made in the turn, and it is at most 2 before a roll, so
\* a turn has at most three rolls and two squares resolved after a double.
RollsAgainIffFreeDouble ==
  /\ []RollAgainOnEveryRoll
  /\ [][/\ (pc = "roll" /\ pc' = "roll" /\ RollTaken) =>
             /\ seat' = seat
             /\ players'[seat].consec_doubles = players[seat].consec_doubles + 1
             /\ ~players'[seat].bankrupt /\ ~players'[seat].in_jail
        /\ \A i \in Seats :
             players'[i].consec_doubles < players[i].consec_doubles =>
               /\ i = seat
               /\ \/ pc = "turns" /\ pc' = "roll"
                  \/ pc = "roll" /\ players'[i].in_jail /\ players'[i].position = JAIL_POS
                     /\ players'[i].jail_turns = 0]_vars

\* Witness of C22: a player rolls again after a double whose square was
\* resolved with an operation of the engine.
RollsAgainAfterDouble ==
  /\ pc = "roll"
  /\ players[seat].consec_doubles = 1
  /\ log # <<>>



\* The game g with player i out of jail for the bail and nothing else touched.
BailedOut(g, i) ==
  [g EXCEPT !.players[i] = [@ EXCEPT !.money = @ - JAIL_BAIL, !.in_jail = FALSE,
                                     !.jail_turns = 0]]

\* What _jail_turn does for the jailed player i: jt is its result for one of
\* the rolls.
JailTurnRule(i, jt) ==
  LET pl == players[i]
  IN  /\ (pl.get_out_cards = 0 /\ pl.jail_turns >= 2 /\ pl.money >= JAIL_BAIL) =>
           /\ jt.out
           /\ Snap(jt.g) = Snap(BailedOut(Game, i))
           /\ Len(jt.g.log) = 1 /\ jt.g.log[1].op = "bail" /\ jt.g.log[1].amount = JAIL_BAIL
      /\ pl.money < JAIL_BAIL =>
           /\ jt.g.players[i].money = pl.money
           /\ jt.g.ownership = ownership
           /\ jt.g.log = <<>>
      /\ ~jt.out =>
           /\ jt.g = [Game EXCEPT !.players[i].jail_turns = @ + 1]
           /\ jt.g.players[i].in_jail

\* The jailed player about to roll who is still in jail after the pass, never
\* having left it (the count of jailed turns went up), has only that count
\* changed, and the turn is over.
StayInJailRule(d1, d2) ==
  \A c \in RebuildOrders(chance_deck), m \in RebuildOrders(community_deck) :
    \A r \in {TurnPass(Game, seat, d1, d2, [chance |-> c, community |-> m])} :
      (r.g.players[seat].in_jail
       /\ r.g.players[seat].jail_turns = players[seat].jail_turns + 1) =>
        /\ r.g = [Game EXCEPT !.players[seat].jail_turns = @ + 1]
        /\ ~r.again

\* C23: a jailed player without a card who starts a third (or later) jailed
\* turn with cash >= the bail pays exactly the bail and leaves jail; a player
\* who stays in jail keeps position and cash and resolves no square; bail is
\* only ever paid out of cash that covers it, with the ledger untouched.
BailOnlyFromCash ==
  /\ (pc = "roll" /\ players[seat].in_jail) =>
       \A d1 \in DieFaces, d2 \in DieFaces :
         /\ \A jt \in {JailTurn(Game, seat, d1, d2)} : JailTurnRule(seat, jt)
         /\ StayInJailRule(d1, d2)
  /\ \A k \in DOMAIN log :
       log[k].op = "bail" =>
         /\ log[k].pre.players[log[k].p].money >= JAIL_BAIL
         /\ log[k].post.players[log[k].p].money
              = log[k].pre.players[log[k].p].money - JAIL_BAIL
         /\ ~log[k].post.players[log[k].p].in_jail
         /\ log[k].post.ownership = log[k].pre.ownership

\* Witness of C23: bail has just been paid on a third turn in jail by a
\* player whose cash was not above the 40 % line.
BailOnThirdTurn ==
  /\ log # <<>>
  /\ log[1].op = "bail"
  /\ log[1].pre.players[log[1].p].jail_turns = 3
  /\ log[1].pre.players[log[1].p].money <= Reserve(starting_money, BAIL_RICH_PCT)


\* Every player bankrupt in the game a is the same in the game b.
BankruptUntouched(a, b) ==
  \A i \in DOMAIN a.players : a.players[i].bankrupt => b.players[i] = a.players[i]

\* No pass the player about to roll can make, and no card that player can be
\* handed, touches a bankrupt player.
BankruptOutOfReach ==
  (pc = "roll" /\ \E i \in Seats : players[i].bankrupt) =>
    \A c \in RebuildOrders(chance_deck), m \in RebuildOrders(community_deck) :
      /\ \A d1 \in DieFaces, d2 \in DieFaces :
           BankruptUntouched(Game, TurnPass(Game, seat, d1, d2,
                                            [chance |-> c, community |-> m]).g)
      /\ \A card \in SeqToSet(CHANCE_CARDS) \cup SeqToSet(COMMUNITY_CARDS) :
           BankruptUntouched(Game, ApplyCard(Game, seat, card, 7,
                                             [chance |-> c, community |-> m]))

\* C24: bankruptcy is terminal: a bankrupt player stays bankrupt, is never the
\* player rolling, has the seat passed over without a turn, and keeps cash,
\* position, jail status, cards and list of squares for ever, whatever the
\* other players roll or draw.
BankruptcyTerminal ==
  /\ [](pc = "roll" => ~players[seat].bankrupt)
  /\ []BankruptOutOfReach
  /\ [](\A k \in DOMAIN log :
          /\ BankruptUntouched(log[k].pre, log[k].mid)
          /\ BankruptUntouched(log[k].pre, log[k].post))
  /\ [][\A i \in Seats :
          players[i].bankrupt =>
            /\ players'[i] = players[i]
            /\ (pc = "turns" /\ seat = i) =>
                 /\ pc' = "turns" /\ seat' = i + 1 /\ turn_count' = turn_count
                 /\ UNCHANGED << players, ownership, stats, chance_deck, community_deck >>]_vars

\* Witness of C24: the seat of a bankrupt player has just been passed over.
BankruptSeatSkipped ==
  /\ pc = "turns"
  /\ seat >= 1
  /\ players[seat - 1].bankrupt
  /\ log = <<>>
  /\ \E i \in Seats : i >= seat /\ ~players[i].bankrupt


\* The seats of a round come up one after the other from 0, and each one is
\* left either without a turn (a bankrupt player) or after one whole turn.
SeatsInOrder ==
  /\ seat' # seat => \/ pc = "round" /\ seat' = 0
                     \/ pc \in {"turns", "roll"} /\ seat < num_players /\ seat' = seat + 1
  /\ (pc = "turns" /\ seat < num_players) =>
       IF players[seat].bankrupt
       THEN pc' = "turns" /\ seat' = seat + 1 /\ turn_count' = turn_count
       ELSE pc' = "roll" /\ seat' = seat /\ turn_count' = turn_count
  /\ (pc = "roll" /\ RollTaken) =>
       \/ pc' = "roll" /\ seat' = seat /\ turn_count' = turn_count
       \/ pc' = "turns" /\ seat' = seat + 1 /\ turn_count' = turn_count + 1
  /\ turn_count' # turn_count => pc = "roll" /\ pc' = "turns"
  /\ round_count' # round_count =>
       pc = "round" /\ round_count' = round_count + 1 /\ pc' = "turns" /\ seat' = 0

\* The end-of-game test is made with every seat of the round gone through.
TestAfterLastSeat ==
  (pc' \in {"done", "round"} /\ pc' # pc) => pc = "turns" /\ seat = num_players

\* C25: in a round the seats come up in ascending order, a solvent player's
\* seat gives exactly one turn and a bankrupt player's seat none, and the game
\* ends or starts a new round only after the last seat, also when a single
\* solvent player is left in the middle of the round.
RoundGoesThroughAllSeats ==
  /\ []((pc = "turns" /\ seat < num_players) =>
          /\ ENABLED (SkipSeat \/ BeginTurn)
          /\ ~ENABLED (EndByElimination \/ EndByCeiling \/ NextRound))
  /\ [](pc \in {"turns", "roll"} => seat \in 0..num_players)
  /\ [](pc = "roll" => seat < num_players)
  /\ [][SeatsInOrder /\ TestAfterLastSeat]_vars

\* Witness of C25: the only solvent player left takes a turn, the round
\* going on after the others fell.
LastPlayerStillPlays ==
  /\ pc = "roll"
  /\ Cardinality(Active) = 1


\* The station ahead of pos at the least distance, going round the board.
StationAhead(pos) ==
  CHOOSE st \in {5, 14, 25, 35} :
    \A t \in {5, 14, 25, 35} : (st - pos) % 40 <= (t - pos) % 40

\* The entries of the log lg with the operation op.
Entries(lg, op) == {k \in DOMAIN lg : lg[k].op = op}

\* The game b is the game a after a nearest-station card handed to player i:
\* the pawn on the station ahead, the bonus of the start square if it was
\* passed, and either nothing more (station unowned, the player's own or
\* mortgaged) or one charge of twice the station rent to the owner.
NearestStationRule(a, b, i) ==
  LET st    == StationAhead(a.players[i].position)
      ow    == a.ownership[st]
      bonus == IF st < a.players[i].position THEN GO_REWARD ELSE 0
  IN  /\ b.players[i].position = st
      /\ Entries(b.log, "buy") = {}
      /\ IF ow.owner = None \/ ow.owner = i \/ ow.mortgaged
         THEN /\ b.ownership = a.ownership
              /\ b.players = [a.players EXCEPT ![i].position = st, ![i].money = @ + bonus]
              /\ b.stats.rent_paid = a.stats.rent_paid
              /\ Entries(b.log, "charge") = {}
         ELSE /\ Cardinality(Entries(b.log, "charge")) = 1
              /\ \A k \in Entries(b.log, "charge") :
                   /\ b.log[k].p = i /\ b.log[k].q = ow.owner
                   /\ b.log[k].amount = 2 * Rent(a.ownership, st, 7, FALSE)
                   /\ b.log[k].amount > 0
                   /\ b.log[k].pre.players[i].money = a.players[i].money + bonus
                   /\ b.stats.rent_paid[i] = a.stats.rent_paid[i] + b.log[k].amount

\* C26: a nearest-station card puts the player on the station minimising
\* (s - pos) mod 40; an unowned, own or mortgaged station costs nothing and
\* leaves the ledger alone (it is not bought); any other station costs exactly
\* twice its normal rent, charged once to the owner.
NearestStationDoubleRent ==
  /\ pc = "roll" =>
       \A pos \in {q \in DOMAIN BOARD : BOARD[q].type = "chance"} :
         \A b \in {ApplyCard([Game EXCEPT !.players[seat].position = pos], seat,
                             Card("nearest_station", 0), 7,
                             [chance |-> <<>>, community |-> <<>>])} :
           NearestStationRule([Game EXCEPT !.players[seat].position = pos], b, seat)
  /\ \A k \in DOMAIN log :
       (log[k].op = "card" /\ log[k].card.effect = "nearest_station") =>
         LET i  == log[k].p
             st == StationAhead(log[k].pre.players[i].position)
             ow == log[k].pre.ownership[st]
         IN  /\ log[k].post.players[i].position = st
             /\ (ow.owner = None \/ ow.owner = i \/ ow.mortgaged) =>
                  /\ log[k].post.ownership = log[k].pre.ownership
                  /\ log[k].post.stats.rent_paid = log[k].pre.stats.rent_paid
             /\ ~(ow.owner = None \/ ow.owner = i \/ ow.mortgaged) =>
                  /\ k > 1 /\ log[k - 1].op = "charge" /\ log[k - 1].q = ow.owner
                  /\ log[k - 1].amount = 2 * Rent(log[k].pre.ownership, st, 7, FALSE)

\* Witness of C26: a nearest-station card has just been resolved with a
\* charge to the owner of the station.
StationCardCharged ==
  \E k \in DOMAIN log :
    /\ k > 1
    /\ log[k].op = "card" /\ log[k].card.effect = "nearest_station"
    /\ log[k - 1].op = "charge" /\ log[k - 1].q # None
    /\ log[k - 1].amount >= 6000


\* The station squares of the board.
StationSquares == {pos \in DOMAIN BOARD : BOARD[pos].type = "station"}

\* The number of station squares whose ledger owner is the owner of pos.
StationsOfOwner(own, pos) ==
  Cardinality({q \in StationSquares : own[q].owner = own[pos].owner})

\* C27 as stated: the rent of an owned, unmortgaged station is tier n of its
\* schedule, n being the number of stations whose ledger owner is its owner
\* (between 1 and 4), and twice that under the nearest-station card rule.
\* _stations_owned leaves the owner's mortgaged stations out of the count, so
\* the statement fails wherever an owner holds a mortgaged station beside an
\* unmortgaged one.
StationRentByLedgerCount ==
  \A pos \in StationSquares, card_rule \in BOOLEAN :
    (ownership[pos].owner # None /\ ~ownership[pos].mortgaged) =>
      /\ StationsOfOwner(ownership, pos) \in 1..4
      /\ Rent(ownership, pos, 7, card_rule)
           = BOARD[pos].rent[StationsOfOwner(ownership, pos)]
               * (IF card_rule THEN 2 ELSE 1)


\* The utility squares of the board.
UtilitySquares == {pos \in DOMAIN BOARD : BOARD[pos].type = "utility"}

\* The number of utility squares whose ledger owner is the owner of pos.
UtilitiesOfOwner(own, pos) ==
  Cardinality({q \in UtilitySquares : own[q].owner = own[pos].owner})

\* The rent the claim states for the utility pos reached with the roll dice.
StatedUtilityRent(own, pos, dice) ==
  dice * (IF UtilitiesOfOwner(own, pos) = 1 THEN 4 ELSE 10)

\* C28 as stated: the rent of an owned, unmortgaged utility is the sum of the
\* roll times 4 if its owner holds exactly one of the four utilities and
\* times 10 if the owner holds more, the roll being the one that started the
\* movement also when a move-back card brings the pawn from square 7 to the
\* utility on square 4.  _utilities_owned leaves the owner's mortgaged
\* utilities out of the count, so the statement fails wherever an owner holds
\* a mortgaged utility beside a single unmortgaged one.
UtilityRentByHolding ==
  /\ Cardinality(UtilitySquares) = 4
  /\ \A pos \in UtilitySquares, dice \in 2..12 :
       (ownership[pos].owner # None /\ ~ownership[pos].mortgaged) =>
         Rent(ownership, pos, dice, FALSE) = StatedUtilityRent(ownership, pos, dice)
  /\ \A i \in Seats, dice \in 2..12 :
       (/\ ~players[i].bankrupt
        /\ ownership[4].owner \notin {None, i}
        /\ ~ownership[4].mortgaged) =>
         \E k \in DOMAIN ApplyCard([Game EXCEPT !.players[i].position = 7], i,
                                   Card("move_back", 3), dice,
                                   [chance |-> <<>>, community |-> <<>>]).log :
           LET e == ApplyCard([Game EXCEPT !.players[i].position = 7], i,
                              Card("move_back", 3), dice,
                              [chance |-> <<>>, community |-> <<>>]).log[k]
           IN  /\ e.op = "charge" /\ e.p = i /\ e.q = ownership[4].owner
               /\ e.amount = StatedUtilityRent(ownership, 4, dice)


\* The cash a purchase must leave: floor(0.10 x starting money).
BuyFloor == (10 * starting_money) \div 100

\* The game g after player i bought the square pos: the price paid, the ledger
\* entry with the buyer as owner, no building and no mortgage, and the two
\* records that go with a purchase (the player's list, the count of squares
\* bought).
Bought(g, i, pos) ==
  [g EXCEPT !.players[i].money = @ - BOARD[pos].price,
            !.ownership[pos] = [owner |-> i, buildings |-> 0, mortgaged |-> FALSE],
            !.players[i].properties = Append(@, pos),
            !.stats.props_bought[i] = @ + 1]

\* The square resolver run for player i on the unowned square pos buys
\* exactly when the cash left is at or above the floor.
BuyRule(g, i, pos) ==
  \A r \in {ApplySquare(g, i, 7, [chance |-> <<>>, community |-> <<>>])} :
    IF g.players[i].money - BOARD[pos].price >= BuyFloor
    THEN /\ Snap(r) = Snap(Bought(g, i, pos))
         /\ r.chance_deck = g.chance_deck /\ r.community_deck = g.community_deck
         /\ Len(r.log) = 1 /\ r.log[1].op = "buy"
    ELSE r = g

\* C29: on an unowned purchasable square the player buys if and only if cash
\* - price >= floor(0.10 x starting money); the purchase takes exactly the
\* price, makes the buyer the ledger owner with 0 buildings and no mortgage
\* (recorded in the buyer's list and purchase count) and changes nothing
\* else; a refusal changes nothing.
BuysIffReserveKept ==
  /\ pc = "roll" =>
       \A pos \in OwnablePos :
         ownership[pos].owner = None =>
           BuyRule([Game EXCEPT !.players[seat].position = pos], seat, pos)
  /\ \A k \in DOMAIN log :
       log[k].op = "buy" =>
         LET b   == log[k].p
             pos == log[k].pre.players[b].position
         IN  /\ pos \in OwnablePos
             /\ log[k].pre.ownership[pos].owner = None
             /\ log[k].amount = BOARD[pos].price
             /\ log[k].pre.players[b].money - BOARD[pos].price >= BuyFloor
             /\ log[k].post = Snap(Bought(GameAt(log[k].pre), b, pos))

\* Witness of C29: a purchase has just been made by a player who could not
\* buy the same square a second time.
BoughtNearTheFloor ==
  \E k \in DOMAIN log :
    /\ log[k].op = "buy"
    /\ log[k].post.players[log[k].p].money - log[k].amount < BuyFloor


\* The cash a building must leave: floor(0.15 x starting money).
BuildFloor == (15 * starting_money) \div 100

\* The squares of a group, and the least number of buildings on one of them.
GroupSquares(group) == SeqToSet(GROUPS[group].positions)

LeastBuilt(own, group) ==
  CHOOSE m \in 0..5 :
    /\ \E q \in GroupSquares(group) : own[q].buildings = m
    /\ \A q \in GroupSquares(group) : own[q].buildings >= m

\* Player i owns every square of the group in the ledger own, none mortgaged.
HoldsWhole(own, i, group) ==
  \A q \in GroupSquares(group) : own[q].owner = i /\ ~own[q].mortgaged

\* The price of the buildings the squares of S have in b and not in a.
RECURSIVE BuildCost(_, _, _)
BuildCost(a, b, S) ==
  IF S = {} THEN 0
  ELSE LET q == CHOOSE x \in S : TRUE
       IN  (b.ownership[q].buildings - a.ownership[q].buildings)
             * GROUPS[BOARD[q].group].house_cost
           + BuildCost(a, b, S \ {q})

\* The square q of the group was built on in a way an even, one-at-a-time
\* development allows: it ends at most one above the least-built square of
\* the group, at most at 5, and if it was raised in the last round over the
\* group, every square before it in the group's order stands as high.
BuiltEvenly(a, b, group, q) ==
  LET least == LeastBuilt(b.ownership, group)
      pos   == GROUPS[group].positions
  IN  /\ b.ownership[q].buildings <= 5
      /\ b.ownership[q].buildings <= least + 1
      /\ b.ownership[q].buildings = least + 1 =>
           \A m, n \in DOMAIN pos :
             (pos[n] = q /\ m < n) => b.ownership[pos[m]].buildings >= least + 1

\* The game b is the game a after a build pass of player i.
BuildRule(a, b, i) ==
  /\ \A q \in DOMAIN a.ownership :
       /\ b.ownership[q].owner = a.ownership[q].owner
       /\ b.ownership[q].mortgaged = a.ownership[q].mortgaged
       /\ b.ownership[q].buildings >= a.ownership[q].buildings
       /\ b.ownership[q].buildings > a.ownership[q].buildings =>
            /\ q \in ColourPos
            /\ HoldsWhole(a.ownership, i, BOARD[q].group)
            /\ BuiltEvenly(a, b, BOARD[q].group, q)
  /\ b.players = [a.players EXCEPT ![i].money = @ - BuildCost(a, b, ColourPos)]
  /\ b.stats = a.stats
  /\ b.ownership # a.ownership => b.players[i].money >= BuildFloor
  /\ \A k \in DOMAIN GROUP_ORDER :
       HoldsWhole(a.ownership, i, GROUP_ORDER[k]) =>
         \/ \A q \in GroupSquares(GROUP_ORDER[k]) : b.ownership[q].buildings = 5
         \/ b.players[i].money - GROUPS[GROUP_ORDER[k]].house_cost < BuildFloor

\* C30: a build pass builds only on groups the builder holds whole and
\* unmortgaged, pays exactly the group's house cost per building, builds only
\* on a square at the group's current minimum and never above 5, keeps cash
\* >= floor(0.15 x starting money) after every purchase, and leaves a group
\* only at five buildings everywhere or when the next building fails the cash
\* check.
BuildsEvenlyAboveReserve ==
  /\ pc = "roll" => \A b \in {TryBuild(Game, seat)} : BuildRule(Game, b, seat)
  /\ \A k \in DOMAIN log :
       log[k].op = "build" => BuildRule(log[k].pre, log[k].post, log[k].p)

\* Witness of C30: a build pass has just stopped for lack of cash in the
\* middle of a round over a group.
BuildStoppedMidGroup ==
  \E k \in DOMAIN log :
    /\ log[k].op = "build"
    /\ \E q \in ColourPos, r \in ColourPos :
         /\ BOARD[q].group = BOARD[r].group
         /\ log[k].post.ownership[q].buildings > log[k].pre.ownership[q].buildings
         /\ log[k].post.ownership[r].buildings < log[k].post.ownership[q].buildings


\* C31 as stated: in every state the building counts of the squares of one
\* colour group differ by at most one.  _raise_funds sells every building of
\* one square at a time and stops as soon as the cash is there (lines
\* 400-410), so a liquidation can leave a bare square beside built ones.
DevelopmentStaysEven ==
  \A k \in DOMAIN GROUP_ORDER :
    \A q \in GroupSquares(GROUP_ORDER[k]), r \in GroupSquares(GROUP_ORDER[k]) :
      ownership[q].buildings - ownership[r].buildings <= 1


\* C32 as stated: at every turn boundary, from the initial state on, the
\* recorded peak cash of each player is at least that player's cash.
\* __init__ sets peak_cash to 0 (line 309), and only _credit and the credit
\* of _charge raise it: the starting money, the transfers of pay_each and
\* receive_from_each and the proceeds of _raise_funds are not recorded.
PeakCashIsWatermark ==
  pc \in {"round", "turns", "done"} =>
    \A i \in Seats : stats.peak_cash[i] >= players[i].money


\* The mortgage of every square mortgaged in the ledger a is still there in
\* the ledger b, unless the square has no owner in b.
MortgagesKept(a, b) ==
  \A pos \in OwnablePos :
    a[pos].mortgaged => IF b[pos].owner = None THEN ~b[pos].mortgaged ELSE b[pos].mortgaged

\* A mortgaged square has an owner and yields no rent, whatever the dice.
MortgagedYieldsNothing ==
  \A pos \in OwnablePos :
    ownership[pos].mortgaged =>
      /\ ownership[pos].owner # None
      /\ \A dice \in 2..12, double_station \in BOOLEAN :
           Rent(ownership, pos, dice, double_station) = 0

\* C33: mortgages are never lifted: while a square has an owner its mortgaged
\* flag never goes from true to false, through every operation of a turn and
\* from one turn to the next, also when a creditor inherits it; it yields no
\* rent; the flag is cleared only when the square returns to the bank.
MortgagesNeverLifted ==
  /\ []MortgagedYieldsNothing
  /\ [](\A k \in DOMAIN log :
          /\ MortgagesKept(log[k].pre.ownership, log[k].mid.ownership)
          /\ MortgagesKept(log[k].mid.ownership, log[k].post.ownership)
          /\ MortgagesKept(log[k].post.ownership, ownership))
  /\ [][MortgagesKept(ownership, ownership')]_vars

\* Witness of C33: a creditor has just inherited a square that was mortgaged
\* in the debtor's hands, and holds it mortgaged.
InheritedMortgageStays ==
  \E k \in Entries(log, "bankrupt") :
    /\ log[k].q # None
    /\ \E pos \in OwnablePos :
         /\ log[k].pre.ownership[pos].owner = log[k].p
         /\ log[k].pre.ownership[pos].mortgaged
         /\ ownership[pos].owner = log[k].q
         /\ ownership[pos].mortgaged

\* In the ledger own, every built square belongs to a player who owns every
\* square of its colour group, none of them mortgaged.
BuiltInsideMonopoly(own) ==
  \A pos \in OwnablePos :
    own[pos].buildings > 0 =>
      /\ BOARD[pos].type = "property"
      /\ own[pos].owner # None
      /\ \A q \in GroupSquares(BOARD[pos].group) :
           own[q].owner = own[pos].owner /\ ~own[q].mortgaged

\* C34: in every reachable state, and in the games before, during and after
\* every operation of a turn, a square with buildings belongs to an owner who
\* owns every square of its colour group with none of them mortgaged, also
\* after a partial liquidation and after a bankruptcy transfer.
BuildingsOnlyInIntactMonopoly ==
  /\ BuiltInsideMonopoly(ownership)
  /\ \A k \in DOMAIN log :
       /\ BuiltInsideMonopoly(log[k].pre.ownership)
       /\ BuiltInsideMonopoly(log[k].mid.ownership)
       /\ BuiltInsideMonopoly(log[k].post.ownership)

\* Witness of C34: a charge has just been met by selling the buildings of one
\* square while another square of the player still stands built.
PartlyLiquidated ==
  \E k \in Entries(log, "charge") :
    /\ \E pos \in OwnablePos :
         /\ log[k].pre.ownership[pos].buildings > 0
         /\ log[k].mid.ownership[pos].buildings = 0
    /\ \E pos \in OwnablePos :
         /\ ownership[pos].owner = log[k].p
         /\ ownership[pos].buildings > 0

\* In the snapshot a, the ledger owner of every square is none or a player
\* who is not bankrupt.
OwnersSolvent(a) ==
  \A pos \in OwnablePos :
    a.ownership[pos].owner # None => ~a.players[a.ownership[pos].owner].bankrupt

\* C35: in every reachable state, and in the games before, during and after
\* every operation of a turn, the ledger owner of a square is none or a
\* player who is not bankrupt; every charge and every bankruptcy that names a
\* creditor names one who is not bankrupt.
OwnerNeverBankrupt ==
  /\ OwnersSolvent(Snap(Game))
  /\ \A k \in DOMAIN log :
       /\ OwnersSolvent(log[k].pre)
       /\ OwnersSolvent(log[k].mid)
       /\ OwnersSolvent(log[k].post)
       /\ (log[k].op \in {"charge", "bankrupt"} /\ log[k].q # None) =>
            /\ ~log[k].pre.players[log[k].q].bankrupt
            /\ ~log[k].mid.players[log[k].q].bankrupt
            /\ ~log[k].post.players[log[k].q].bankrupt

\* Witness of C35: a player holding squares has just gone bankrupt to the
\* bank, and a square of another player is still in the ledger.
EstateBackToBank ==
  \E k \in Entries(log, "bankrupt") :
    /\ log[k].q = None
    /\ \E pos \in OwnablePos : log[k].pre.ownership[pos].owner = log[k].p
    /\ \E pos \in OwnablePos : ownership[pos].owner # None

\* The player whose pass filled the log: the one rolling again, or the one
\* whose seat has just been left.
Roller == IF pc = "roll" THEN seat ELSE seat - 1

\* Between the games a and b, no player other than i has gone bankrupt, and
\* nobody holds less than nothing in b.
OnlyBankrupts(a, b, i) ==
  \A j \in DOMAIN a.players :
    /\ (j # i /\ ~a.players[j].bankrupt) => ~b.players[j].bankrupt
    /\ b.players[j].money >= 0

\* No pass the player about to roll can make, and no card that player can be
\* handed, makes another player bankrupt or takes more than a player holds.
OthersStaySolvent ==
  pc = "roll" =>
    \A c \in RebuildOrders(chance_deck), m \in RebuildOrders(community_deck) :
      /\ \A d1 \in DieFaces, d2 \in DieFaces :
           OnlyBankrupts(Game, TurnPass(Game, seat, d1, d2,
                                        [chance |-> c, community |-> m]).g, seat)
      /\ \A card \in SeqToSet(CHANCE_CARDS) \cup SeqToSet(COMMUNITY_CARDS) :
           OnlyBankrupts(Game, ApplyCard(Game, seat, card, 7,
                                         [chance |-> c, community |-> m]), seat)

\* What the operations of the last pass did: only the roller was charged or
\* made bankrupt, and each collection of a receive_from_each card took no
\* more than the payer held.
PassSparesOthers ==
  \A k \in DOMAIN log :
    /\ OnlyBankrupts(log[k].pre, log[k].post, Roller)
    /\ log[k].op \in {"charge", "bankrupt"} => log[k].p = Roller
    /\ log[k].op = "receive_from_each" =>
         /\ log[k].q = Roller /\ log[k].p # Roller
         /\ log[k].amount <= log[k].pre.players[log[k].p].money
         /\ log[k].post.players[log[k].p].money =
              log[k].pre.players[log[k].p].money - log[k].amount

\* The count of a round, stated over whole rounds: a round that starts as
\* round r + 1 with k >= 2 solvent players and turn_count = n - k ends with
\* turn_count = n.  It follows from the step rules of C36 and is checked
\* apart from them, as a property of Spec.
RoundAddsOneTurnPerSolventPlayer ==
  \A r \in 0..(RoundCeiling + 1), n \in 0..(8 * (RoundCeiling + 2)) :
    []((pc = "round" /\ round_count = r /\ Cardinality(Active) >= 2
          /\ turn_count + Cardinality(Active) = n)
       => []((pc = "turns" /\ seat = num_players /\ round_count = r + 1)
               => turn_count = n))

\* C36: a player becomes bankrupt only in a pass of their own turn: no rent,
\* pay-each, receive-from-each or inheritance of another player's turn sets
\* the flag, and receive-from-each takes no more than the payer's cash; hence
\* each player solvent when a round starts is still solvent when the seat
\* comes up and takes one turn, counted once, and a bankrupt seat takes none:
\* a round that starts with k solvent players adds exactly k turns.
BankruptOnlyOnOwnTurn ==
  /\ []OthersStaySolvent
  /\ []PassSparesOthers
  /\ [][/\ \A i \in Seats :
            (~players[i].bankrupt /\ players'[i].bankrupt) => (pc = "roll" /\ seat = i)
        /\ SeatsInOrder]_vars

\* Witness of C36: a receive_from_each card has just taken all the cash of a
\* player who held less than its value, and that player is not bankrupt.
CollectedToTheLastCoin ==
  \E k \in Entries(log, "receive_from_each") :
    /\ log[k].amount > 0
    /\ ~players[log[k].p].bankrupt

\* In the snapshot a, the bankruptcy order lists the bankrupt players, each
\* one once.
OrderListsBankrupt(a) ==
  /\ SeqToSet(a.stats.bankrupt_order) = {i \in DOMAIN a.players : a.players[i].bankrupt}
  /\ \A j \in DOMAIN a.stats.bankrupt_order, k \in DOMAIN a.stats.bankrupt_order :
       a.stats.bankrupt_order[j] = a.stats.bankrupt_order[k] => j = k

\* The order list b is the list a, or a with the player i added at its end.
OrderExtended(a, b, i) == b = a \/ b = Append(a, i)

\* C37: the bankruptcy order list holds exactly the ids of the players whose
\* bankrupt flag is true, each once, in the order in which they went
\* bankrupt: the list only grows, at its end, by the player who has just
\* gone bankrupt; _bankrupt is invoked for a player who is not bankrupt, once
\* in a pass at most, also when the charge fails inside a card effect.
BankruptOrderExact ==
  /\ [](OrderListsBankrupt(Snap(Game)))
  /\ [](\A k \in DOMAIN log :
          /\ OrderListsBankrupt(log[k].pre)
          /\ OrderListsBankrupt(log[k].post)
          /\ log[k].op = "bankrupt" =>
               /\ ~log[k].pre.players[log[k].p].bankrupt
               /\ log[k].post.stats.bankrupt_order =
                    Append(log[k].pre.stats.bankrupt_order, log[k].p)
               /\ Entries(log, "bankrupt") = {k})
  /\ [][\A i \in Seats :
          /\ OrderExtended(stats.bankrupt_order, stats'.bankrupt_order, seat)
          /\ (~players[i].bankrupt /\ players'[i].bankrupt) =>
               stats'.bankrupt_order = Append(stats.bankrupt_order, i)]_vars

\* Witness of C37: a second player has just gone bankrupt, on a charge made
\* by a card that a square resolution drew.
SecondBankruptcyByCard ==
  /\ Len(stats.bankrupt_order) >= 2
  /\ \E k \in Entries(log, "bankrupt"), j \in Entries(log, "card") : k < j

\* The squares on which a card is drawn.
CardSquares(t) == {pos \in DOMAIN BOARD : BOARD[pos].type = t}

\* The game b is the game a after one card handed to player i: that card is
\* the only one resolved, and the pawn has not ended on a card square it was
\* moved to.
OneCardOnly(a, b, i) ==
  /\ Cardinality(Entries(b.log, "card")) = 1
  /\ b.chance_deck = a.chance_deck
  /\ b.community_deck = a.community_deck
  /\ \/ b.players[i].position = a.players[i].position
     \/ BOARD[b.players[i].position].type \notin {"chance", "community"}

\* Each card of a deck, handed to the player about to roll on each square of
\* that deck, is resolved with no second draw.
NoCardLeadsToACard ==
  pc = "roll" =>
    \A t \in {"chance", "community"} :
      \A pos \in CardSquares(t) :
        \A card \in SeqToSet(IF t = "chance" THEN CHANCE_CARDS ELSE COMMUNITY_CARDS) :
          \A a \in {[Game EXCEPT !.players[seat].position = pos]} :
            \A c \in RebuildOrders(chance_deck), m \in RebuildOrders(community_deck) :
              OneCardOnly(a, ApplyCard(a, seat, card, 7, [chance |-> c, community |-> m]), seat)

\* C38: resolving one roll draws at most one card: no move-to, move-back or
\* nearest-station card of either deck puts the player on a chance or
\* community square, so no pass resolves more than one card and each pass
\* takes at most one card from the two decks together.
OneCardPerRoll ==
  /\ []NoCardLeadsToACard
  /\ [](Cardinality(Entries(log, "card")) <= 1)
  /\ [][/\ Len(chance_deck') + Len(community_deck') >=
             Len(chance_deck) + Len(community_deck) - 1
        /\ chance_deck' = chance_deck \/ community_deck' = community_deck]_vars

\* Witness of C38: a card has just moved the player to a square whose
\* resolution charged the player or sold the square.
CardMovedOntoSquare ==
  \E j \in Entries(log, "card") :
    /\ log[j].card.effect \in {"move_to", "move_back"}
    /\ \E k \in Entries(log, "charge") \cup Entries(log, "buy") : k < j

\* The sum of the per-player counter f over the players 0..(n - 1).
RECURSIVE CounterSum(_, _)
CounterSum(f, n) == IF n = 0 THEN 0 ELSE f[n - 1] + CounterSum(f, n - 1)

\* What has been recorded as rent paid and not as rent received.
RentShortfall(st) ==
  CounterSum(st.rent_paid, num_players) - CounterSum(st.rent_received, num_players)

\* The rent charges of the log lg that ended in the payer's bankruptcy.
FailedRents(lg) ==
  {k \in Entries(lg, "charge") :
     lg[k].q # None /\ ~lg[k].pre.players[lg[k].p].bankrupt /\ lg[k].post.players[lg[k].p].bankrupt}

\* The sum of the amounts of the entries S of the log lg.
RECURSIVE AmountSum(_, _)
AmountSum(lg, S) ==
  IF S = {} THEN 0
  ELSE LET k == CHOOSE j \in S : TRUE IN lg[k].amount + AmountSum(lg, S \ {k})

\* C39: the sum over players of rent_received is at most the sum over
\* players of rent_paid.  They are equal in a new game and stay equal through
\* every step in which no rent charge ends in the payer's bankruptcy; a rent
\* charge that does so leaves its amount recorded as paid and not received.
RentReceivedAtMostPaid ==
  /\ [](RentShortfall(stats) >= 0)
  /\ []((round_count = 0 \/ stats.bankrupt_order = <<>>) => RentShortfall(stats) = 0)
  /\ [](\A k \in DOMAIN log :
          /\ RentShortfall(log[k].pre.stats) >= 0
          /\ RentShortfall(log[k].post.stats) >= 0
          /\ (log[k].op = "charge" /\ log[k].q # None) =>
               RentShortfall(log[k].post.stats) - RentShortfall(log[k].pre.stats) =
                 (IF k \in FailedRents(log) THEN 0 ELSE 0 - log[k].amount))
  /\ [][RentShortfall(stats') = RentShortfall(stats) + AmountSum(log', FailedRents(log'))]_vars

\* Witness of C39: a rent charge has just ended in the payer's bankruptcy, and
\* less rent has been received than paid.
RentLostInBankruptcy ==
  /\ FailedRents(log) # {}
  /\ RentShortfall(stats) > 0

=============================================================================
